---- MODULE Spec2Model ----
(***************************************************************************)
(* Recurrent layers of keras/layers/recurrent.py: the RNN wrapper, its     *)
(* statefulness, and the SimpleRNN / GRU / LSTM cells with their cached    *)
(* dropout masks.                                                          *)
(*                                                                         *)
(* Tensors are abstracted to one scalar component in the ring Z_Modulus    *)
(* (every elementwise / matmul expression of the source becomes the same   *)
(* expression over that ring); shapes are tracked separately where the     *)
(* source inspects them.  Python's None is the empty tuple.                *)
(***************************************************************************)
EXTENDS Integers, Sequences, FiniteSets, TLC

\* ---------------------------------------------------------------- bounds
Modulus == 5
Units == 2
BatchSize == 2
MaxTime == 2
MaxCalls == 2

None == <<>>

\* ------------------------------------------------------- tensor arithmetic
Scalars == 0 .. (Modulus - 1)

Norm(v) == v % Modulus

\* activations.get('tanh') stand-in: a fixed non-linear map on the ring
activation(v) == Norm(v * v + 2)

\* activations.get('hard_sigmoid') stand-in
recurrent_activation(v) == Norm(2 * v)

\* weights created in the cells' build(); fixed after build
kernel == 1
recurrent_kernel == 1
bias == 2

\* per-gate column slices of the fused kernels (gate g = 1, 2, 3, 4)
kernel_g(g) == Norm(kernel + g)

recurrent_kernel_g(g) == Norm(recurrent_kernel + g)

bias_g(g) == Norm(bias + g)

\* --------------------------------------------------------- dropout masks
\* A mask is [id, vals]: id is the identity of the generated tensor (the
\* serial number of the generation), vals its `count` components.
\* K.dropout(ones, rate): a unit is dropped (0) or kept and scaled by
\* 1 / (1 - rate); the draw is a function of the generator's position.
KeepScale(rate) == Norm(100 \div (100 - rate))

dropped_inputs(id, k, rate) == IF (id + k) % 2 = 0 THEN 0 ELSE KeepScale(rate)

_generate_dropout_mask(id, rate, training, count) ==
    [id |-> id,
     vals |-> [k \in 1 .. count |->
                 IF training THEN dropped_inputs(id, k, rate) ELSE 1]]

InRange(rate) == 0 < rate /\ rate < 100

\* mutant of EnsureMasks: no test for an already cached mask
EnsureMasks_Always(c, training, count) ==
    LET c1 == IF InRange(c.dropout)
              THEN [c EXCEPT !._dropout_mask =
                        <<_generate_dropout_mask(c.ngen + 1, c.dropout,
                                                 training, count)>>,
                             !.ngen = c.ngen + 1]
              ELSE c
    IN  IF InRange(c.recurrent_dropout)
        THEN [c1 EXCEPT !._recurrent_dropout_mask =
                  <<_generate_dropout_mask(c1.ngen + 1, c.recurrent_dropout,
                                           training, count)>>,
                        !.ngen = c1.ngen + 1]
        ELSE c1

\* The two lazy mask generations that open every cell's call.
\* c = [_dropout_mask, _recurrent_dropout_mask, dropout, recurrent_dropout,
\*      ngen]; ngen counts the masks generated so far.
EnsureMasks(c, training, count) ==
    LET genDp == InRange(c.dropout) /\ c._dropout_mask = None
        c1 == IF genDp
              THEN [c EXCEPT !._dropout_mask =
                        <<_generate_dropout_mask(c.ngen + 1, c.dropout,
                                                 training, count)>>,
                             !.ngen = c.ngen + 1]
              ELSE c
        genRec == InRange(c.recurrent_dropout)
                  /\ c._recurrent_dropout_mask = None
    IN  IF genRec
        THEN [c1 EXCEPT !._recurrent_dropout_mask =
                  <<_generate_dropout_mask(c1.ngen + 1, c.recurrent_dropout,
                                           training, count)>>,
                        !.ngen = c1.ngen + 1]
        ELSE c1

\* ------------------------------------------------------------------ cells
\* mask component k (1-based; the source's dp_mask[k - 1])
MaskAt(m, k) == m[1].vals[k]

\* SimpleRNNCell.call(inputs, states, training)
SimpleRNNCell_call(c, inputs, states, training) ==
    LET step(c2) ==
      LET
        dp_mask == c2._dropout_mask
        rec_dp_mask == c2._recurrent_dropout_mask
        prev_output == states[1]
        h0 == IF dp_mask # None
              THEN Norm(Norm(inputs * MaskAt(dp_mask, 1)) * kernel)
              ELSE Norm(inputs * kernel)
        h == IF c.use_bias THEN Norm(h0 + bias) ELSE h0
        prev == IF rec_dp_mask # None
                THEN Norm(prev_output * MaskAt(rec_dp_mask, 1))
                ELSE prev_output
        output == activation(Norm(h + prev * recurrent_kernel))
      IN  [output |-> output, states |-> <<output>>, cell |-> c2]
    IN  step(EnsureMasks(c, training, 1))

\* bias for hidden state of GRUCell (reset_after): second row of the bias
recurrent_bias_g(g) == Norm(bias + g + 1)

\* GRUCell.call(inputs, states, training)
GRUCell_call(c, inputs, states, training) ==
    LET step(c2) ==
      LET
        dp_mask == c2._dropout_mask
        rec_dp_mask == c2._recurrent_dropout_mask
        h_tm1 == states[1]
        useDp == InRange(c.dropout)
        useRec == InRange(c.recurrent_dropout)
        \* ---- implementation 1: one matmul per gate
        in1(g) == IF useDp THEN Norm(inputs * MaskAt(dp_mask, g)) ELSE inputs
        x1(g) == IF c.use_bias
                 THEN Norm(in1(g) * kernel_g(g) + bias_g(g))
                 ELSE Norm(in1(g) * kernel_g(g))
        h1(g) == IF useRec THEN Norm(h_tm1 * MaskAt(rec_dp_mask, g)) ELSE h_tm1
        rec1(g) == IF c.reset_after /\ c.use_bias
                   THEN Norm(h1(g) * recurrent_kernel_g(g) + recurrent_bias_g(g))
                   ELSE Norm(h1(g) * recurrent_kernel_g(g))
        z1 == recurrent_activation(Norm(x1(1) + rec1(1)))
        r1 == recurrent_activation(Norm(x1(2) + rec1(2)))
        recurrent_h1 ==
            IF c.reset_after
            THEN Norm(r1 * (IF c.use_bias
                            THEN Norm(h1(3) * recurrent_kernel_g(3)
                                      + recurrent_bias_g(3))
                            ELSE Norm(h1(3) * recurrent_kernel_g(3))))
            ELSE Norm(Norm(r1 * h1(3)) * recurrent_kernel_g(3))
        hh1 == activation(Norm(x1(3) + recurrent_h1))
        out1 == Norm(z1 * h_tm1 + (1 - z1) * hh1)
        \* ---- any other implementation: fused matmul, then sliced
        in2 == IF useDp THEN Norm(inputs * MaskAt(dp_mask, 1)) ELSE inputs
        matrix_x == [g \in 1 .. 3 |->
                        IF c.use_bias
                        THEN Norm(in2 * kernel_g(g) + bias_g(g))
                        ELSE Norm(in2 * kernel_g(g))]
        h2 == IF useRec THEN Norm(h_tm1 * MaskAt(rec_dp_mask, 1)) ELSE h_tm1
        matrix_inner == [g \in 1 .. 3 |->
                            IF c.reset_after /\ c.use_bias
                            THEN Norm(h2 * recurrent_kernel_g(g)
                                      + recurrent_bias_g(g))
                            ELSE Norm(h2 * recurrent_kernel_g(g))]
        z2 == recurrent_activation(Norm(matrix_x[1] + matrix_inner[1]))
        r2 == recurrent_activation(Norm(matrix_x[2] + matrix_inner[2]))
        recurrent_h2 == IF c.reset_after
                        THEN Norm(r2 * matrix_inner[3])
                        ELSE Norm(Norm(r2 * h2) * recurrent_kernel_g(3))
        hh2 == activation(Norm(matrix_x[3] + recurrent_h2))
        out2 == Norm(z2 * h2 + (1 - z2) * hh2)
        h == IF c.implementation = 1 THEN out1 ELSE out2
      IN  [output |-> h, states |-> <<h>>, cell |-> c2]
    IN  step(EnsureMasks(c, training, 3))

\* LSTMCell.call(inputs, states, training)
LSTMCell_call(c, inputs, states, training) ==
    LET step(c2) ==
      LET
        dp_mask == c2._dropout_mask
        rec_dp_mask == c2._recurrent_dropout_mask
        h_tm1 == states[1]
        c_tm1 == states[2]
        useDp == InRange(c.dropout)
        useRec == InRange(c.recurrent_dropout)
        \* ---- implementation 1
        in1(g) == IF useDp THEN Norm(inputs * MaskAt(dp_mask, g)) ELSE inputs
        x1(g) == IF c.use_bias
                 THEN Norm(in1(g) * kernel_g(g) + bias_g(g))
                 ELSE Norm(in1(g) * kernel_g(g))
        h1(g) == IF useRec THEN Norm(h_tm1 * MaskAt(rec_dp_mask, g)) ELSE h_tm1
        gate1(g) == Norm(x1(g) + h1(g) * recurrent_kernel_g(g))
        \* ---- any other implementation
        in2 == IF useDp THEN Norm(inputs * MaskAt(dp_mask, 1)) ELSE inputs
        h2 == IF useRec THEN Norm(h_tm1 * MaskAt(rec_dp_mask, 1)) ELSE h_tm1
        z(g) == IF c.use_bias
                THEN Norm(in2 * kernel_g(g) + h2 * recurrent_kernel_g(g)
                          + bias_g(g))
                ELSE Norm(in2 * kernel_g(g) + h2 * recurrent_kernel_g(g))
        pre(g) == IF c.implementation = 1 THEN gate1(g) ELSE z(g)
        i == recurrent_activation(pre(1))
        f == recurrent_activation(pre(2))
        cc == Norm(f * c_tm1 + i * activation(pre(3)))
        o == recurrent_activation(pre(4))
        h == Norm(o * activation(cc))
      IN  [output |-> h, states |-> <<h, cc>>, cell |-> c2]
    IN  step(EnsureMasks(c, training, 4))

CellKinds == {"SimpleRNNCell", "GRUCell", "LSTMCell"}

\* cell.call dispatch
cell_call(c, inputs, states, training) ==
    CASE c.kind = "SimpleRNNCell" -> SimpleRNNCell_call(c, inputs, states, training)
      [] c.kind = "GRUCell" -> GRUCell_call(c, inputs, states, training)
      [] c.kind = "LSTMCell" -> LSTMCell_call(c, inputs, states, training)

\* cell.state_size, as the list of dimensions (an int counts as one entry)
state_size(c) ==
    IF c.kind = "LSTMCell" THEN <<Units, Units>> ELSE <<Units>>

\* ------------------------------------------------------------ scan driver
\* K.rnn(step, inputs, initial_state, ...): iterate the step function over
\* the timesteps, threading the states; `trace` keeps, per timestep, the
\* masks the cell multiplied by and the number of masks generated so far.
RECURSIVE rnn_loop(_, _, _, _, _, _, _)
rnn_loop(c, xs, t, sts, outputs, trace, training) ==
    IF t > Len(xs)
    THEN [last_output |-> outputs[Len(outputs)], outputs |-> outputs,
          states |-> sts, cell |-> c, trace |-> trace]
    ELSE LET next(r) ==
                 rnn_loop(r.cell, xs, t + 1, r.states,
                          Append(outputs, r.output),
                          Append(trace, [dp |-> r.cell._dropout_mask,
                                         rec |-> r.cell._recurrent_dropout_mask,
                                         ngen |-> r.cell.ngen]),
                          training)
         IN  next(cell_call(c, xs[t], sts, training))

K_rnn(c, xs, initial_state, training) ==
    rnn_loop(c, xs, 1, initial_state, <<>>, <<>>, training)

\* ------------------------------------------------------------ RNN wrapper
\* A state tensor is [shape |-> <<batch, dim>>, val |-> scalar].
Vals(tensors) == [i \in 1 .. Len(tensors) |-> tensors[i].val]

\* RNN.states (property): number of entries of the list it returns
num_states(c, sts) == IF sts = None THEN Len(state_size(c)) ELSE Len(sts)

\* RNN.get_initial_state(inputs): one all-zero tensor per state size
get_initial_state(c, batch) ==
    [i \in 1 .. Len(state_size(c)) |->
        [shape |-> <<batch, state_size(c)[i]>>, val |-> 0]]

\* the zero variables reset_states creates / writes
zeros(c, batch_size) ==
    [i \in 1 .. Len(state_size(c)) |->
        [shape |-> <<batch_size, state_size(c)[i]>>, val |-> 0]]

\* the per-state loop of reset_states(states=values): shape check, then
\* K.set_value, state after state
RECURSIVE set_values(_, _, _, _, _)
set_values(c, batch_size, values, sts, index) ==
    IF index > Len(values) \/ index > Len(sts)
    THEN [raised |-> "", states |-> sts]
    ELSE IF values[index].shape # <<batch_size, state_size(c)[index]>>
         THEN [raised |-> "ValueError", states |-> sts]
         ELSE set_values(c, batch_size, values,
                         [sts EXCEPT ![index] = values[index]], index + 1)

\* RNN.reset_states, after the guards: create the variables, zero them, or
\* assign the given values
write_states_KeepOnNone(c, batch_size, sts, values) ==
    IF sts = None
    THEN [raised |-> "", states |-> zeros(c, batch_size)]
    ELSE IF values = None
    THEN [raised |-> "", states |-> sts]
    ELSE IF Len(values) # Len(sts)
    THEN [raised |-> "ValueError", states |-> sts]
    ELSE set_values(c, batch_size, values, sts, 1)

write_states(c, batch_size, sts, values) ==
    IF sts = None
    THEN [raised |-> "", states |-> zeros(c, batch_size)]
    ELSE IF values = None
    THEN [raised |-> "", states |-> zeros(c, batch_size)]
    ELSE IF Len(values) # Len(sts)
    THEN [raised |-> "ValueError", states |-> sts]
    ELSE set_values(c, batch_size, values, sts, 1)

\* mutant of reset_states: no check that the batch size is known
reset_states_NoBatchCheck(stateful, c, ispec, sts, values) ==
    IF ~stateful
    THEN [raised |-> "AttributeError", states |-> sts]
    ELSE IF ispec = None
    THEN [raised |-> "TypeError", states |-> sts]
    ELSE write_states(c, IF ispec[1] = None THEN 0 ELSE ispec[1][1],
                      sts, values)

\* RNN.reset_states(states=values); ispec is input_spec[0].shape reduced to
\* its batch entry (None: the spec has no shape yet)
reset_states(stateful, c, ispec, sts, values) ==
    IF ~stateful
    THEN [raised |-> "AttributeError", states |-> sts]
    ELSE IF ispec = None
    THEN [raised |-> "TypeError", states |-> sts]
    ELSE IF ispec[1] = None
    THEN [raised |-> "ValueError", states |-> sts]
    ELSE write_states(c, ispec[1][1], sts, values)

\* RNN.build(input_shape); input_batch is input_shape[0] (None or <<n>>),
\* sspec is state_spec reduced to the last dimension of every spec
build(lay, c, sspec, sts, input_batch) ==
    LET batch_size == IF lay.stateful THEN input_batch ELSE None
        ispec == <<batch_size>>
    IN  IF sspec # None /\ sspec # state_size(c)
        THEN [raised |-> "ValueError", input_spec |-> ispec,
              state_spec |-> sspec, states |-> sts]
        ELSE IF lay.stateful
        THEN LET done(r) ==
                     [raised |-> r.raised, input_spec |-> ispec,
                      state_spec |-> state_size(c), states |-> r.states]
             IN  done(reset_states(lay.stateful, c, ispec, sts, None))
        ELSE [raised |-> "", input_spec |-> ispec,
              state_spec |-> state_size(c), states |-> sts]

\* the updates `call` registers on a stateful layer: one pair
\* (self.states[i], states[i]) per final state the scan returned
state_updates_None(final) == <<>>

state_updates_FirstOnly(final) == <<[index |-> 1, value |-> final[1]]>>

state_updates(final) == [i \in 1 .. Len(final) |-> [index |-> i, value |-> final[i]]]

\* running the registered updates: carried-over state `index` := value
RECURSIVE run_updates(_, _, _)
run_updates(sts, updates, k) ==
    IF k > Len(updates) THEN sts
    ELSE run_updates([sts EXCEPT ![updates[k].index].val = updates[k].value],
                     updates, k + 1)

\* mutant of call_result: the final states are never appended
call_result_OutputOnly(lay, r) ==
    IF lay.return_sequences
    THEN <<[seq |-> TRUE, v |-> r.outputs]>>
    ELSE <<[seq |-> FALSE, v |-> <<r.last_output>>]>>

\* the value `call` returns: the output entry, then the final states when
\* return_state is set
call_result(lay, r) ==
    LET output == IF lay.return_sequences
                  THEN [seq |-> TRUE, v |-> r.outputs]
                  ELSE [seq |-> FALSE, v |-> <<r.last_output>>]
    IN  IF lay.return_state
        THEN <<output>> \o [i \in 1 .. Len(r.states) |->
                               [seq |-> FALSE, v |-> <<r.states[i]>>]]
        ELSE <<output>>

\* RNN.compute_output_shape(input_shape), as the list of its entries (a
\* bare shape counts as one entry); input_shape is <<batch, timesteps>>
compute_output_shape(lay, c, input_shape) ==
    LET output_dim == state_size(c)[1]
        output_shape == IF lay.return_sequences
                        THEN <<input_shape[1], input_shape[2], output_dim>>
                        ELSE <<input_shape[1], output_dim>>
    IN  IF lay.return_state
        THEN <<output_shape>> \o [i \in 1 .. Len(state_size(c)) |->
                                     <<input_shape[1], state_size(c)[i]>>]
        ELSE <<output_shape>>

\* RNN.compute_mask(inputs, mask), as the list of its entries
compute_mask(lay, c, sts, mask) ==
    LET output_mask == IF lay.return_sequences THEN mask ELSE None
    IN  IF lay.return_state
        THEN <<output_mask>> \o [i \in 1 .. num_states(c, sts) |-> None]
        ELSE <<output_mask>>

NoResult(c, sts, raised, scanned) ==
    [raised |-> raised, scanned |-> scanned, initial |-> <<>>, final |-> <<>>,
     output |-> <<>>, updates |-> <<>>, trace |-> <<>>, cell |-> c,
     states |-> sts]

\* RNN.call, resolution of the initial state: the explicit list, else the
\* carried-over states of a stateful layer, else zeros
initial_state_StatefulFirst(lay, c, sts, initial_state) ==
    IF lay.stateful THEN sts
    ELSE IF initial_state # None THEN initial_state
    ELSE get_initial_state(c, BatchSize)

resolve_initial_state(lay, c, sts, initial_state) ==
    IF initial_state # None THEN initial_state
    ELSE IF lay.stateful THEN sts
    ELSE get_initial_state(c, BatchSize)

\* RNN.call: len(initial_state) != len(self.states)
count_mismatch_TooFewOnly(n_initial, n_states) == n_initial < n_states

count_mismatch(n_initial, n_states) == n_initial # n_states

\* RNN.call: self.unroll and timesteps in [None, 1]
cannot_unroll_NoneOnly(unroll, timesteps) == unroll /\ timesteps = None

cannot_unroll(unroll, timesteps) == unroll /\ timesteps \in {None, <<1>>}

\* RNN.call(inputs, mask, training, initial_state); x is the input tensor
\* [batch, timesteps (static, None when unknown), xs], initial_state is
\* None or the explicit list
RNN_call(lay, c, sts, x, initial_state, training) ==
    LET body(initial) ==
      LET
        \* a stateful layer without variables presents [None, ...]
        n_initial == IF initial = None THEN num_states(c, sts)
                     ELSE Len(initial)
      IN
        IF count_mismatch(n_initial, num_states(c, sts))
        THEN NoResult(c, sts, "ValueError: states", FALSE)
        ELSE IF cannot_unroll(lay.unroll, x.timesteps)
        THEN NoResult(c, sts, "ValueError: unroll", FALSE)
        ELSE IF \/ initial = None
                \/ Len(initial) < Len(state_size(c))
                \/ \E i \in 1 .. Len(state_size(c)) :
                      initial[i].shape[2] # state_size(c)[i]
        \* the backend cannot run the step on a missing or mis-shaped state
        THEN NoResult(c, sts, "BackendError", TRUE)
        ELSE LET done(r, updates) ==
                     [raised |-> "", scanned |-> TRUE,
                      initial |-> Vals(initial), final |-> r.states,
                      output |-> call_result(lay, r), updates |-> updates,
                      trace |-> r.trace, cell |-> r.cell,
                      states |-> run_updates(sts, updates, 1)]
                 scan(r) ==
                     done(r, IF lay.stateful THEN state_updates(r.states)
                             ELSE <<>>)
             IN  scan(K_rnn(c, x.xs, Vals(initial), training))
    IN  body(resolve_initial_state(lay, c, sts, initial_state))

Subclasses == {"SimpleRNN", "GRU", "LSTM"}

layer_call_NoClear(lay, c, sts, x, initial_state, training) ==
    RNN_call(lay, c, sts, x, initial_state, training)

\* SimpleRNN.call / GRU.call / LSTM.call: drop the cell's cached masks, then
\* RNN.call; the generic RNN layer goes to RNN.call directly
layer_call(lay, c, sts, x, initial_state, training) ==
    IF lay.class \in Subclasses
    THEN RNN_call(lay, [c EXCEPT !._dropout_mask = None,
                                 !._recurrent_dropout_mask = None],
                  sts, x, initial_state, training)
    ELSE RNN_call(lay, c, sts, x, initial_state, training)

\* ------------------------------------------------------------------ state
VARIABLES
    layer,        \* constructor arguments of the layer
    cell,         \* the wrapped cell: its arguments and cached masks
    built,        \* the base layer's built flag
    input_spec,   \* input_spec[0].shape, reduced to its batch entry
    state_spec,   \* last dimension of every state spec, or None
    _states,      \* the carried-over state variables, or None
    updates,      \* the updates registered by the last call
    ncalls,       \* number of top-level calls made
    carry,        \* history: final states of the last call that returned,
                  \*   None after a reset_states
    last,         \* history: the last operation, its arguments and result;
                  \*   carried: carry was set when it began; after_reset: it
                  \*   directly followed a reset_states() that followed a call
    cells,        \* StackedRNNCells.cells: the stacked cells, their weights
    att,          \* an attentional layer: its constructor arguments
    ret           \* history: the last operation applied to a stack, to an
                  \*   attentional layer or to a cell, and what it returned

rnn_vars == <<layer, cell, built, input_spec, state_spec, _states, updates,
              ncalls, carry, last>>

vars == <<layer, cell, built, input_spec, state_spec, _states, updates,
          ncalls, carry, last, cells, att, ret>>

\* no operation applied yet
NoRet == [op |-> "none"]

Classes == Subclasses \cup {"RNN"}

CellOf(class) ==
    CASE class = "SimpleRNN" -> "SimpleRNNCell"
      [] class = "GRU" -> "GRUCell"
      [] class = "LSTM" -> "LSTMCell"
      [] OTHER -> "SimpleRNNCell"

\* rates in percent, after the constructor's clamp min(1., max(0., rate))
DropoutRates == {0, 50}

Lists(S, n) == UNION {[1 .. k -> S] : k \in 1 .. n}

\* input tensors [batch, timesteps, xs]: static batch known or not; a
\* static time dimension of 1 .. MaxTime steps, or an unknown one carrying
\* MaxTime steps of data
InputTensors ==
    {[batch |-> b, timesteps |-> <<n>>, xs |-> [k \in 1 .. n |-> 1]] :
        b \in {None, <<BatchSize>>}, n \in 1 .. MaxTime}
    \cup {[batch |-> b, timesteps |-> None, xs |-> [k \in 1 .. MaxTime |-> 1]] :
             b \in {None, <<BatchSize>>}}

MaxStates == 2

\* explicit initial_state lists: 1 .. MaxStates tensors, all with the right
\* or all with a wrong last dimension
InitialStates ==
    {None} \cup
    UNION {{[i \in 1 .. n |-> [shape |-> <<BatchSize, d>>, val |-> 1]] :
               n \in 1 .. MaxStates} : d \in {Units, Units + 1}}

\* numpy values for reset_states(states=...): 1 .. MaxStates arrays, each
\* well-shaped or with a wrong batch dimension; array i is filled with i
ValueShapes == {<<BatchSize, Units>>, <<BatchSize + 1, Units>>}

ResetValues ==
    {None} \cup
    {[i \in 1 .. Len(shs) |-> [shape |-> shs[i], val |-> i]] :
        shs \in Lists(ValueShapes, MaxStates)}

\* constructor arguments: the defaults with at most one change: stateful or
\* unroll switched on, the returned structure chosen (return_sequences,
\* return_state or both), or dropout (either rate, or both) enabled
AllLayers ==
    [class : Classes, stateful : BOOLEAN, unroll : BOOLEAN,
     return_sequences : BOOLEAN, return_state : BOOLEAN,
     dropout : DropoutRates, recurrent_dropout : DropoutRates]

Changed(l) ==
    {f \in {"stateful", "unroll"} : l[f]}
    \cup {f \in {"returns"} : l.return_sequences \/ l.return_state}
    \cup {f \in {"dropout"} : l.dropout # 0 \/ l.recurrent_dropout # 0}

Layers == {l \in AllLayers : Cardinality(Changed(l)) <= 1}

NoLast ==
    [op |-> "none", raised |-> "", stage |-> "", xs |-> <<>>,
     timesteps |-> None, training |-> FALSE, initial_state |-> None,
     values |-> None, carried |-> FALSE, after_reset |-> FALSE,
     scanned |-> FALSE, initial |-> <<>>, final |-> <<>>, output |-> <<>>,
     trace |-> <<>>]

Init ==
    /\ layer \in Layers
    /\ cell = [kind |-> CellOf(layer.class), dropout |-> layer.dropout,
               recurrent_dropout |-> layer.recurrent_dropout,
               use_bias |-> TRUE, implementation |-> 2, reset_after |-> FALSE,
               _dropout_mask |-> None, _recurrent_dropout_mask |-> None,
               ngen |-> 0]
    /\ built = FALSE
    /\ input_spec = None
    /\ state_spec = None
    /\ _states = None
    /\ updates = <<>>
    /\ ncalls = 0
    /\ carry = None
    /\ last = NoLast
    /\ cells = <<>>
    /\ att = None
    /\ ret = NoRet

\* RNN.__call__(inputs, initial_state, training=...): records the state
\* spec of an explicit initial_state, then the base layer builds the layer
\* on its first use and runs call
Call(x, initial_state, training) ==
    LET sspec == IF initial_state # None
                 THEN [i \in 1 .. Len(initial_state) |->
                          initial_state[i].shape[2]]
                 ELSE state_spec
        h == [NoLast EXCEPT !.op = "__call__", !.xs = x.xs,
                            !.timesteps = x.timesteps, !.training = training,
                            !.initial_state = initial_state,
                            !.carried = (carry # None),
                            !.after_reset = (/\ last.op = "reset_states"
                                             /\ last.raised = ""
                                             /\ last.values = None
                                             /\ last.carried)]
        \* the layer's call, once the layer is built
        run(r) ==
            /\ built' = TRUE
            /\ cell' = r.cell
            /\ _states' = r.states
            /\ updates' = IF r.raised = "" THEN r.updates ELSE updates
            /\ carry' = IF r.raised = "" THEN <<r.final>> ELSE carry
            /\ last' = [h EXCEPT !.raised = r.raised, !.stage = "call",
                                 !.scanned = r.scanned,
                                 !.initial = r.initial, !.final = r.final,
                                 !.output = r.output, !.trace = r.trace]
        \* b: what build left behind (nothing new on a built layer)
        after_build(b) ==
            /\ input_spec' = b.input_spec
            /\ state_spec' = b.state_spec
            /\ IF b.raised # ""
               THEN /\ _states' = b.states
                    /\ last' = [h EXCEPT !.raised = b.raised,
                                         !.stage = "build"]
                    /\ UNCHANGED <<cell, built, updates, carry>>
               ELSE run(layer_call(layer, cell, b.states, x, initial_state,
                                   training))
    IN  /\ ncalls < MaxCalls
        /\ built => x.batch = <<BatchSize>>   \* the entry is read by build only
        \* the training flag is read only when a mask is generated
        /\ training => (InRange(cell.dropout) \/ InRange(cell.recurrent_dropout))
        /\ ncalls' = ncalls + 1
        /\ UNCHANGED layer
        /\ after_build(IF built
                       THEN [raised |-> "", input_spec |-> input_spec,
                             state_spec |-> sspec, states |-> _states]
                       ELSE build(layer, cell, sspec, _states, x.batch))

\* RNN.reset_states(states=values)
ResetStates(values) ==
    LET done(r) ==
            /\ _states' = r.states
            /\ carry' = None
            /\ last' = [NoLast EXCEPT !.op = "reset_states",
                                      !.raised = r.raised,
                                      !.values = values,
                                      !.carried = (carry # None)]
            /\ UNCHANGED <<layer, cell, built, input_spec, state_spec,
                           updates, ncalls>>
    IN  done(reset_states(layer.stateful, cell, input_spec, _states, values))

Next ==
    \/ \E x \in InputTensors, initial_state \in InitialStates,
          training \in BOOLEAN :
            Call(x, initial_state, training) /\ UNCHANGED <<cells, att, ret>>
    \/ \E values \in ResetValues :
            ResetStates(values) /\ UNCHANGED <<cells, att, ret>>

Spec == Init /\ [][Next]_vars

\* -------------------------------------------------------- StackedRNNCells
MaxCells == 2

\* Python's s[:n], s[n:] and s[::-1]
Take(s, n) == SubSeq(s, 1, IF n < Len(s) THEN n ELSE Len(s))

Drop(s, n) == SubSeq(s, n + 1, Len(s))

Reverse(s) == [i \in 1 .. Len(s) |-> s[Len(s) + 1 - i]]

\* `lst += item` over a list of lists
RECURSIVE Flatten(_)
Flatten(ss) == IF ss = <<>> THEN <<>> ELSE Head(ss) \o Flatten(Tail(ss))

\* A stacked cell is [name, state_size, is_layer, weights]; its state_size
\* is [has_len |-> FALSE, dims |-> <<n>>] for an integer and
\* [has_len |-> TRUE, dims |-> <<...>>] for a list or tuple.
\* len(cell.state_size), 1 for an integer
cell_num_states(c) ==
    IF c.state_size.has_len THEN Len(c.state_size.dims) ELSE 1

\* mutant of StackedRNNCells_state_size: cells enumerated first-to-last
StackedRNNCells_state_size_Forward(cs) ==
    Flatten([i \in 1 .. Len(cs) |-> cs[i].state_size.dims])

\* StackedRNNCells.state_size
StackedRNNCells_state_size(cs) ==
    Flatten([i \in 1 .. Len(cs) |->
                IF Reverse(cs)[i].state_size.has_len
                THEN Reverse(cs)[i].state_size.dims
                ELSE <<Reverse(cs)[i].state_size.dims[1]>>])

\* cell.call(inputs, states) of a stacked cell. The stack accepts any object
\* with `call` and `state_size`, so the values are terms (sequences of
\* integers) that spell out which cell produced them from which arguments.
stacked_cell_call(c, inputs, states) ==
    [output |-> <<100 + c.name>> \o inputs \o Flatten(states),
     states |-> [k \in 1 .. cell_num_states(c) |->
                    <<200 + 10 * c.name + k>> \o inputs \o Flatten(states)]]

\* StackedRNNCells.call, first loop: the per-cell chunks of the flat state
\* list, cells taken last-to-first (rs is the reversed cell list)
RECURSIVE recover_states(_, _)
recover_states(rs, states) ==
    IF rs = <<>> THEN <<>>
    ELSE <<Take(states, cell_num_states(Head(rs)))>>
         \o recover_states(Tail(rs), Drop(states, cell_num_states(Head(rs))))

\* StackedRNNCells.call, second loop: the cells called in order, each on the
\* output of the one before; returns the last output and the new states per
\* cell
RECURSIVE call_cells(_, _, _, _, _)
call_cells(cs, nested_states, i, inputs, new_nested_states) ==
    IF i > Len(cs)
    THEN [output |-> inputs, new_nested_states |-> new_nested_states]
    ELSE LET next(r) == call_cells(cs, nested_states, i + 1, r.output,
                                   Append(new_nested_states, r.states))
         IN  next(stacked_cell_call(cs[i], inputs, nested_states[i]))

\* mutant of StackedRNNCells_call: new states flattened in cell order
StackedRNNCells_call_Forward(cs, inputs, states) ==
    LET out(r) == [output |-> r.output,
                   states |-> Flatten(r.new_nested_states)]
    IN  out(call_cells(cs, Reverse(recover_states(Reverse(cs), states)), 1,
                       inputs, <<>>))

\* StackedRNNCells.call(inputs, states)
StackedRNNCells_call(cs, inputs, states) ==
    LET out(r) == [output |-> r.output,
                   states |-> Flatten(Reverse(r.new_nested_states))]
    IN  out(call_cells(cs, Reverse(recover_states(Reverse(cs), states)), 1,
                       inputs, <<>>))

\* StackedRNNCells.get_weights()
get_weights(cs) ==
    Flatten([i \in 1 .. Len(cs) |->
                IF cs[i].is_layer THEN cs[i].weights ELSE <<>>])

\* StackedRNNCells.set_weights, the loop: the (variable, value) pairs it
\* collects; `weights` is rebound twice per Layer cell
RECURSIVE set_weights_tuples(_, _, _, _)
set_weights_tuples(cs, i, weights, tuples) ==
    IF i > Len(cs) THEN tuples
    ELSE IF cs[i].is_layer
    THEN LET num_param == Len(cs[i].weights)
             paired(w) ==
                 set_weights_tuples(
                     cs, i + 1, Drop(w, num_param),
                     tuples \o [k \in 1 .. (IF Len(w) < num_param
                                            THEN Len(w) ELSE num_param) |->
                                   [cell |-> i, index |-> k, value |-> w[k]]])
         IN  paired(Take(weights, num_param))
    ELSE set_weights_tuples(cs, i + 1, weights, tuples)

\* K.batch_set_value(tuples)
RECURSIVE batch_set_value(_, _, _)
batch_set_value(cs, tuples, k) ==
    IF k > Len(tuples) THEN cs
    ELSE batch_set_value(
             [cs EXCEPT ![tuples[k].cell].weights[tuples[k].index] =
                            tuples[k].value],
             tuples, k + 1)

\* StackedRNNCells.set_weights(weights)
set_weights(cs, weights) ==
    batch_set_value(cs, set_weights_tuples(cs, 1, weights, <<>>), 1)

\* the wrapper's variables while another object is exercised
NoRNN ==
    /\ layer = None /\ cell = None /\ built = FALSE /\ input_spec = None
    /\ state_spec = None /\ _states = None /\ updates = <<>> /\ ncalls = 0
    /\ carry = None /\ last = NoLast

\* state sizes of stacked cells: an integer, another integer, a pair
StateSizes ==
    {[has_len |-> FALSE, dims |-> <<Units>>],
     [has_len |-> FALSE, dims |-> <<Units + 1>>],
     [has_len |-> TRUE, dims |-> <<Units, Units>>]}

\* the weights a stacked cell holds: none for a cell that is not a Layer,
\* one or two variables (initially 0) for a Layer
CellWeights ==
    {[is_layer |-> FALSE, weights |-> <<>>],
     [is_layer |-> TRUE, weights |-> <<0>>],
     [is_layer |-> TRUE, weights |-> <<0, 0>>]}

\* StackedRNNCells(cells): 1 .. MaxCells cells, named by their position
Stacks ==
    UNION {{[i \in 1 .. n |->
                [name |-> i, state_size |-> ss[i],
                 is_layer |-> ws[i].is_layer, weights |-> ws[i].weights]] :
               ss \in [1 .. n -> StateSizes], ws \in [1 .. n -> CellWeights]} :
           n \in 1 .. MaxCells}

StackInit ==
    /\ NoRNN
    /\ att = None
    /\ ret = NoRet
    /\ cells \in Stacks

\* reading stack.state_size
StateSize ==
    /\ ret' = [op |-> "state_size",
               value |-> StackedRNNCells_state_size(cells)]
    /\ UNCHANGED <<rnn_vars, cells, att>>

\* stack.call(inputs, states) on a flat list of len(state_size) states,
\* state p being the term <<p>>
StackCall(inputs) ==
    LET states == [p \in 1 .. Len(StackedRNNCells_state_size(cells)) |->
                      <<p>>]
        done(r) ==
            ret' = [op |-> "call", inputs |-> inputs, states |-> states,
                    output |-> r.output, new_states |-> r.states]
    IN  /\ done(StackedRNNCells_call(cells, inputs, states))
        /\ UNCHANGED <<rnn_vars, cells, att>>

\* stack.set_weights(weights)
SetWeights(weights) ==
    /\ Len(weights) = Len(get_weights(cells))
    /\ cells' = set_weights(cells, weights)
    /\ ret' = [op |-> "set_weights", weights |-> weights]
    /\ UNCHANGED <<rnn_vars, att>>

\* stack.get_weights(); `after` is the list handed to the set_weights that
\* came directly before, None when there was none
GetWeights ==
    /\ ret' = [op |-> "get_weights", value |-> get_weights(cells),
               after |-> IF ret.op = "set_weights" THEN <<ret.weights>>
                         ELSE None]
    /\ UNCHANGED <<rnn_vars, cells, att>>

\* flat weight lists: entry i is i, or i + 1
WeightLists ==
    {[i \in 1 .. n |-> i + d] : n \in 0 .. 2 * MaxCells, d \in 0 .. 1}

StackNext ==
    \/ StateSize
    \/ \E inputs \in {<<51>>, <<52>>} : StackCall(inputs)
    \/ \E weights \in WeightLists : SetWeights(weights)
    \/ GetWeights

StackSpec == StackInit /\ [][StackNext]_vars

\* ---------------------------------------------------------------- GRUCell
\* GRUCell(units, dropout=, recurrent_dropout=, use_bias=, reset_after=,
\* implementation=), built, no mask cached
GRUCells ==
    [kind : {"GRUCell"}, dropout : DropoutRates,
     recurrent_dropout : DropoutRates, use_bias : BOOLEAN,
     implementation : {1, 2}, reset_after : BOOLEAN, _dropout_mask : {None},
     _recurrent_dropout_mask : {None}, ngen : {0}]

GRUInit ==
    /\ layer = None /\ built = FALSE /\ input_spec = None
    /\ state_spec = None /\ _states = None /\ updates = <<>> /\ ncalls = 0
    /\ carry = None /\ last = NoLast
    /\ cells = <<>> /\ att = None /\ ret = NoRet
    /\ cell \in GRUCells

\* cell.call(inputs, [h_tm1], training=training); `other` is what the cell
\* returns from the same arguments, weights and cached masks under the
\* other implementation mode
GRUStep(inputs, h_tm1, training) ==
    LET done(r, o) ==
            /\ cell' = r.cell
            /\ ret' = [op |-> "GRUCell.call", inputs |-> inputs,
                       h_tm1 |-> h_tm1, training |-> training,
                       h |-> r.output, other |-> o.output]
    IN  /\ done(GRUCell_call(cell, inputs, <<h_tm1>>, training),
                GRUCell_call([cell EXCEPT !.implementation = 3 - @],
                             inputs, <<h_tm1>>, training))
        /\ UNCHANGED <<layer, built, input_spec, state_spec, _states,
                       updates, ncalls, carry, last, cells, att>>

GRUNext ==
    \E inputs \in Scalars, h_tm1 \in Scalars, training \in BOOLEAN :
        GRUStep(inputs, h_tm1, training)

GRUSpec == GRUInit /\ [][GRUNext]_vars

\* -------------------------------------------------------------- attention
\* One batch row. A context is a sequence (time) of feature vectors, a
\* projected context and a score list hold one integer per context
\* timestep; attention weights are exact fractions num[t] / den.
ContextDim == 2
MaxContext == 2

RECURSIVE SumSeq(_)
SumSeq(q) == IF q = <<>> THEN 0 ELSE Head(q) + SumSeq(Tail(q))

RECURSIVE MinSeq(_)
MinSeq(q) ==
    IF Len(q) = 1 THEN q[1]
    ELSE LET least(m) == IF q[1] < m THEN q[1] ELSE m
         IN  least(MinSeq(Tail(q)))

\* K.tanh on integers: odd, monotone, bounded by 1
tanh(v) == IF v > 0 THEN 1 ELSE IF v < 0 THEN -1 ELSE 0

\* K.softmax(e): exp(e[t]) / sum of exp(e[j]), with the exponential in base
\* 2 and the common factor 2^min(e) cancelled so the weights stay integers
softmax(e) ==
    LET weights(m) == [t \in 1 .. Len(e) |-> 2 ^ (e[t] - m)]
        fraction(w) == [num |-> w, den |-> SumSeq(w)]
    IN  fraction(weights(MinSeq(e)))

\* the attention weights of the layers, fixed after build
attention_recurrent_kernel == 1
attention_context_wa == 2
bias_ca == 1
attention_context_kernel == 1
bias_ba == 1

\* attention_mode arguments: a string or a callable
ModeStr(name) == [callable |-> FALSE, name |-> name]

ModeFn(name) == [callable |-> TRUE, name |-> name]

\* the caller's scoring function attention_mode(h_tm1, pctx_, context, ...)
custom_score(name, h_tm1, pctx_, context) ==
    IF name = "position" THEN [t \in 1 .. Len(pctx_) |-> t]
    ELSE [t \in 1 .. Len(pctx_) |-> 0]

\* e = wa' * tanh(pctx_ + p_state_) + bias_ca
additive_score(p_state_, pctx_) ==
    [t \in 1 .. Len(pctx_) |->
        tanh(pctx_[t] + p_state_) * attention_context_wa + bias_ca]

\* e = p_state_ . pctx_
multiplicative_score(p_state_, pctx_) ==
    [t \in 1 .. Len(pctx_) |-> p_state_ * pctx_[t]]

\* mutant of score: 'luong' is not recognised
score_NoLuong(attention_mode, h_tm1, p_state_, pctx_, context) ==
    IF ~attention_mode.callable /\ attention_mode.name \in {"add", "bahdanau"}
    THEN <<additive_score(p_state_, pctx_)>>
    ELSE IF ~attention_mode.callable /\ attention_mode.name \in {"dot"}
    THEN <<multiplicative_score(p_state_, pctx_)>>
    ELSE IF attention_mode.callable
    THEN <<custom_score(attention_mode.name, h_tm1, pctx_, context)>>
    ELSE None

\* compute_attention, the selection of the score: <<e>>, or None when the
\* function raises NotImplementedError
score(attention_mode, h_tm1, p_state_, pctx_, context) ==
    IF ~attention_mode.callable /\ attention_mode.name \in {"add", "bahdanau"}
    THEN <<additive_score(p_state_, pctx_)>>
    ELSE IF ~attention_mode.callable /\ attention_mode.name \in {"dot", "luong"}
    THEN <<multiplicative_score(p_state_, pctx_)>>
    ELSE IF attention_mode.callable
    THEN <<custom_score(attention_mode.name, h_tm1, pctx_, context)>>
    ELSE None

\* compute_attention(h_tm1, pctx_, context, att_dp_mask, ..., mask_context,
\* attention_mode); mask_context is [ndim, v]
compute_attention(h_tm1, pctx_, context, att_dp_mask, mask_context, attention_mode) ==
    LET p_state_ == h_tm1 * att_dp_mask[1] * attention_recurrent_kernel
        weigh(sc, e, alphas) ==
            [raised |-> "", score |-> sc, e |-> e, alphas |-> alphas,
             ctx_ |-> [num |-> [k \in 1 .. ContextDim |->
                                   SumSeq([t \in 1 .. Len(context) |->
                                              context[t][k] * alphas.num[t]])],
                       den |-> alphas.den]]
        masked(sc, e) == weigh(sc, e, softmax(e))
        scored(sc) ==
            IF sc = None
            THEN [raised |-> "NotImplementedError", score |-> None,
                  e |-> None, alphas |-> None, ctx_ |-> None]
            ELSE masked(sc[1],
                        IF mask_context.ndim > 1
                        THEN [t \in 1 .. Len(sc[1]) |->
                                 mask_context.v[t] * sc[1][t]]
                        ELSE sc[1])
    IN  scored(score(attention_mode, h_tm1, p_state_, pctx_, context))

\* ----------------------------------------------------- attentional layers
\* the layers whose step reads a side context and its mask
CondClasses ==
    {"AttGRUCond", "AttConditionalGRUCond", "AttLSTMCond",
     "AttConditionalLSTMCond"}

AttClasses ==
    CondClasses \cup {"AttGRU", "AttLSTM", "AttLSTMCond2Inputs",
                      "AttConditionalLSTMCond2Inputs", "AttLSTMCond3Inputs"}

\* the LSTM layers carry a memory state and four gates
IsLSTM(class) == class \notin {"AttGRU", "AttGRUCond", "AttConditionalGRUCond"}

\* str.lower() on the mode names in use
lower(name) ==
    CASE name = "ADD" -> "add"
      [] name = "Bahdanau" -> "bahdanau"
      [] name = "DOT" -> "dot"
      [] OTHER -> name

\* __init__ of the attentional layers, the arguments that matter here;
\* `self.attention_mode = attention_mode.lower()` needs a string
att_init(class, attention_mode, mask_value, stateful, rate) ==
    IF attention_mode.callable
    THEN [raised |-> "AttributeError", layer |-> None]
    ELSE [raised |-> "",
          layer |-> <<[class |-> class,
                       attention_mode |-> ModeStr(lower(attention_mode.name)),
                       mask_value |-> mask_value, stateful |-> stateful,
                       use_bias |-> TRUE, dropout |-> rate,
                       recurrent_dropout |-> rate, attention_dropout |-> rate,
                       built |-> FALSE, context |-> None]>>]

\* an entry of the list handed to step: what it is, and its value
Item(tag, val) == [tag |-> tag, val |-> val]

\* mutant of att_get_initial_states: one placeholder state only
att_get_initial_states_OnePlaceholder(a, context) ==
    (IF IsLSTM(a.class) THEN <<Item("h", 0), Item("c", 0)>>
     ELSE <<Item("h", 0)>>)
    \o <<Item("x_att", [k \in 1 .. ContextDim |-> 0])>>

\* get_initial_states(inputs), no init_state given: zeros for the state (and
\* the memory), then the placeholders of the attended context and of the
\* attention weights
att_get_initial_states(a, context) ==
    (IF IsLSTM(a.class) THEN <<Item("h", 0), Item("c", 0)>>
     ELSE <<Item("h", 0)>>)
    \o <<Item("x_att", [k \in 1 .. ContextDim |-> 0]),
         Item("alphas", [t \in 1 .. Len(context) |-> 0])>>

\* K.dropout(ones, rate) in the training phase, ones otherwise
in_train_phase(id, k, rate, training) ==
    IF training /\ rate > 0 THEN dropped_inputs(id, k, rate) ELSE 1

\* the context mask derived when none is given:
\* K.not_equal(K.sum(self.context, axis=2), self.mask_value)
derived_mask(a, context) ==
    [t \in 1 .. Len(context) |->
        IF SumSeq(context[t]) # a.mask_value THEN 1 ELSE 0]

\* get_constants(inputs, mask_context, training) of the four Cond layers
att_get_constants(a, context, mask_context, training) ==
    LET gates == IF IsLSTM(a.class) THEN 4 ELSE 3
        dp_mask ==
            IF InRange(a.dropout)
            THEN [k \in 1 .. gates |->
                     in_train_phase(1, k, a.dropout, training)]
            ELSE [k \in 1 .. gates |-> 1]
        rec_dp_mask ==
            IF InRange(a.recurrent_dropout)
            THEN [k \in 1 .. gates |->
                     in_train_phase(2, k, a.recurrent_dropout, training)]
            ELSE [k \in 1 .. gates |-> 1]
        att_dp_mask ==
            IF InRange(a.attention_dropout)
            THEN <<in_train_phase(3, 1, a.recurrent_dropout, training)>>
            ELSE <<1>>
        B_Ua(t, k) ==
            IF InRange(a.attention_dropout)
            THEN in_train_phase(4, t + k, a.attention_dropout, training)
            ELSE 1
        dot(t) == SumSeq([k \in 1 .. ContextDim |->
                             context[t][k] * B_Ua(t, k)
                             * attention_context_kernel])
        pctx == [t \in 1 .. Len(context) |->
                    IF a.use_bias THEN dot(t) + bias_ba ELSE dot(t)]
    IN  <<Item("dp_mask", dp_mask), Item("rec_dp_mask", rec_dp_mask),
          Item("att_dp_mask", att_dp_mask), Item("pctx", pctx),
          Item("context", context),
          Item("mask_context",
               IF mask_context = None THEN derived_mask(a, context)
               ELSE mask_context[1])>>

\* the list K.rnn calls step with: the states, then the constants
scan_states(initial_states, constants) == initial_states \o constants

\* states[k] in step (k counted from 0)
StateAt(states, k) ==
    IF k + 1 <= Len(states) THEN states[k + 1]
    ELSE Item("IndexError", None)

\* step(x, states), its opening lines: the names bound to states[0], ...
att_step_unpack(a, states) ==
    LET m == IF IsLSTM(a.class) THEN 1 ELSE 0
    IN  [h_tm1 |-> StateAt(states, 0),
         c_tm1 |-> IF IsLSTM(a.class) THEN StateAt(states, 1) ELSE None,
         non_used_x_att |-> StateAt(states, 1 + m),
         non_used_alphas_att |-> StateAt(states, 2 + m),
         dp_mask |-> StateAt(states, 3 + m),
         rec_dp_mask |-> StateAt(states, 4 + m),
         att_dp_mask |-> StateAt(states, 5 + m),
         pctx_ |-> StateAt(states, 6 + m),
         context |-> StateAt(states, 7 + m),
         mask_context |-> StateAt(states, 8 + m)]

\* call(inputs, mask, training) of a Cond layer, as far as the first step's
\* unpacking: build on first use (a stateful layer resets its states there,
\* which fails: reset_states indexes self.input_shape, the list of the
\* layer's two to four input shapes, with [3] and passes a whole shape as a
\* batch size), then the states and constants go to the scan driver
att_call(a, context, mask_context, training) ==
    IF a.stateful
    THEN [raised |-> "Error: reset_states", scanned |-> FALSE, layer |-> a,
          states |-> <<>>, bound |-> None]
    ELSE LET run(states) ==
                 [raised |-> "", scanned |-> TRUE,
                  layer |-> [a EXCEPT !.built = TRUE, !.context = <<context>>],
                  states |-> states,
                  bound |-> <<att_step_unpack(a, states)>>]
         IN  run(scan_states(att_get_initial_states(a, context),
                             att_get_constants(a, context, mask_context,
                                               training)))

\* reset_states() of an attentional layer that has no state variables yet:
\* `listed` is the list the method writes down, h (and c) and one variable
\* of the attended context's width; building it fails as described above,
\* so self.states is never assigned
att_reset_states(a) ==
    IF ~a.stateful
    THEN [raised |-> "AssertionError", listed |-> <<>>, states |-> None]
    ELSE [raised |-> "Error: reset_states",
          listed |-> (IF IsLSTM(a.class)
                      THEN <<Item("h", 0), Item("c", 0)>>
                      ELSE <<Item("h", 0)>>) \o <<Item("x_att", 0)>>,
          states |-> None]

\* feature vectors of a context timestep: all zero, all one, cancelling
\* entries, a single non-zero entry
ContextRows ==
    {[k \in 1 .. ContextDim |-> 0], [k \in 1 .. ContextDim |-> 1],
     [k \in 1 .. ContextDim |-> IF k = 1 THEN 1 ELSE IF k = 2 THEN -1 ELSE 0],
     [k \in 1 .. ContextDim |-> IF k = 1 THEN 1 ELSE 0]}

Contexts == UNION {[1 .. n -> ContextRows] : n \in 1 .. MaxContext}

\* a (batch, time) mask for a context of n timesteps
Masks(n) == [1 .. n -> {0, 1}]

Modes ==
    {ModeStr(n) : n \in {"add", "bahdanau", "dot", "luong", "ADD", "other"}}
    \cup {ModeFn(n) : n \in {"zeros", "position"}}

\* constructor arguments: the defaults (additive attention, mask_value 0,
\* not stateful, no dropout) with at most one of the four changed
AttArgs ==
    {r \in [class : AttClasses, attention_mode : Modes, mask_value : {0, 1},
            stateful : BOOLEAN, rate : DropoutRates] :
        Cardinality({f \in {"attention_mode"} :
                        r.attention_mode # ModeStr("add")}
                    \cup {f \in {"mask_value"} : r.mask_value # 0}
                    \cup {f \in {"stateful"} : r.stateful}
                    \cup {f \in {"rate"} : r.rate # 0}) <= 1}

AttInit ==
    /\ NoRNN
    /\ cells = <<>>
    /\ att = None
    /\ ret = NoRet

\* Layer(units, attention_mode=..., mask_value=..., stateful=..., dropouts)
Construct(args) ==
    LET made(r) ==
            /\ att' = r.layer
            /\ ret' = [op |-> "__init__", class |-> args.class,
                       attention_mode |-> args.attention_mode,
                       raised |-> r.raised]
    IN  /\ att = None
        /\ made(att_init(args.class, args.attention_mode, args.mask_value,
                         args.stateful, args.rate))
        /\ UNCHANGED <<rnn_vars, cells>>

\* layer([state_below, context], mask=[_, mask_context], training=training)
AttCall(context, mask_context, training) ==
    LET done(r) ==
            /\ att' = <<r.layer>>
            /\ ret' = [op |-> "call", context |-> context,
                       mask_context |-> mask_context, training |-> training,
                       raised |-> r.raised, scanned |-> r.scanned,
                       states |-> r.states, bound |-> r.bound]
    IN  /\ att # None
        /\ att[1].class \in CondClasses
        /\ mask_context # None => Len(mask_context[1]) = Len(context)
        /\ training => InRange(att[1].dropout)
        /\ done(att_call(att[1], context, mask_context, training))
        /\ UNCHANGED <<rnn_vars, cells>>

AttResetStates ==
    LET done(r) ==
            ret' = [op |-> "reset_states", raised |-> r.raised,
                    listed |-> r.listed, states |-> r.states]
    IN  /\ att # None
        /\ done(att_reset_states(att[1]))
        /\ UNCHANGED <<rnn_vars, cells, att>>

AttNext ==
    \/ \E args \in AttArgs : Construct(args)
    \/ AttResetStates
    \/ \E context \in Contexts,
          mask_context \in {None} \cup {<<m>> : m \in UNION {Masks(n) : n \in 1 .. MaxContext}},
          training \in BOOLEAN : AttCall(context, mask_context, training)

AttSpec == AttInit /\ [][AttNext]_vars

\* arguments of compute_attention called on its own, outside any layer: the
\* context is projected as the layers project it, no attention dropout;
\* mask_context is [ndim, v]
AttentionArgs ==
    UNION {{[op |-> "args", h_tm1 |-> h_tm1, context |-> context,
             pctx_ |-> [t \in 1 .. Len(context) |->
                           SumSeq(context[t]) * attention_context_kernel
                           + bias_ba],
             mask_context |-> mask_context,
             attention_mode |-> attention_mode] :
               h_tm1 \in {-1, 0, 1},
               mask_context \in {[ndim |-> 1, v |-> <<>>]}
                   \cup {[ndim |-> 2, v |-> m] : m \in Masks(Len(context))},
               attention_mode \in Modes} :
           context \in Contexts}

AttentionInit ==
    /\ NoRNN
    /\ cells = <<>>
    /\ att = None
    /\ ret \in AttentionArgs

\* compute_attention(h_tm1, pctx_, context, att_dp_mask, ..., mask_context,
\* attention_mode) on the arguments drawn
ComputeAttention ==
    LET done(r) ==
            ret' = [op |-> "compute_attention", h_tm1 |-> ret.h_tm1,
                    pctx_ |-> ret.pctx_, context |-> ret.context,
                    mask_context |-> ret.mask_context,
                    attention_mode |-> ret.attention_mode,
                    raised |-> r.raised, score |-> r.score, e |-> r.e,
                    alphas |-> r.alphas, ctx_ |-> r.ctx_]
    IN  /\ ret.op = "args"
        /\ done(compute_attention(ret.h_tm1, ret.pctx_, ret.context, <<1>>,
                                  ret.mask_context, ret.attention_mode))
        /\ UNCHANGED <<rnn_vars, cells, att>>

AttentionNext == ComputeAttention

AttentionSpec == AttentionInit /\ [][AttentionNext]_vars

\* ------------------------------------- the positional contract of step
\* What a conditional or attentional layer hands to step, and what step
\* does with it, by position and by name. A layer is
\* [class, static_ctx, attend_on_both, rates]; rates maps every dropout
\* argument of the class to its rate in percent. A list entry is
\* Item(tag, val): a dropout mask carries its rate (0: the constant ones), a
\* context mask carries 1 when the caller gave it, 0 when it is derived and
\* 2 when it is K.ones_like.
CellClasses == {"SimpleRNNCell", "GRUCell", "LSTMCell"}

StaticClasses == {"GRUCond", "LSTMCond"}

SelfClasses == {"AttGRU", "AttLSTM"}

TwoInputClasses == {"AttLSTMCond2Inputs", "AttConditionalLSTMCond2Inputs"}

StepClasses ==
    CellClasses \cup StaticClasses \cup SelfClasses \cup CondClasses
    \cup TwoInputClasses \cup {"AttLSTMCond3Inputs"}

RateNames(class) ==
    IF class \in CellClasses THEN {}
    ELSE IF class \in StaticClasses THEN {"dropout", "recurrent_dropout"}
    ELSE IF class \in SelfClasses \cup CondClasses
    THEN {"dropout", "recurrent_dropout", "attention_dropout"}
    ELSE IF class \in TwoInputClasses
    THEN {"recurrent_dropout", "dropout2", "dropout", "attention_dropout",
          "attention_dropout2"}
    ELSE {"dropout_U", "dropout_T", "dropout_W", "dropout_S", "dropout_wa",
          "dropout_Wa", "dropout_wa2", "dropout_Wa2", "dropout_wa3",
          "dropout_Wa3"}

\* constants.append(mask) / constants.append([1., ...]) of one dropout
DpItem(tag, rate) == Item(tag, IF InRange(rate) THEN rate ELSE 0)

\* the context mask get_constants appends: the caller's, or the derived one
MaskItem(tag, given) == Item(tag, IF given THEN 1 ELSE 0)

\* one `name = states[index]` of step; expects is the entry the comment and
\* the use of the name ask for
Read(name, index, expects) ==
    [name |-> name, index |-> index, expects |-> expects]

\* one attention computation of step: the names it passes as projected
\* keys, raw keys, attention-dropout mask and key mask, the kernel set, and
\* the names it assigns
Attend(k, pctx_, context, att_dp_mask, weights, mask_context, out) ==
    [k |-> k, pctx_ |-> pctx_, context |-> context,
     att_dp_mask |-> att_dp_mask, kernel |-> weights,
     mask_context |-> mask_context, out |-> out]

\* the h (and c) entries get_initial_states starts the list with
recurrent_states(lstm) ==
    IF lstm THEN <<Item("h", 0), Item("c", 0)>> ELSE <<Item("h", 0)>>

\* ---- SimpleRNNCell, GRUCell, LSTMCell: the states the wrapper passes
Cell_get_initial_states(a) == recurrent_states(a.class = "LSTMCell")

Cell_reads(a) ==
    IF a.class = "LSTMCell"
    THEN <<Read("h_tm1", 0, "h"), Read("c_tm1", 1, "c")>>
    ELSE IF a.class = "GRUCell" THEN <<Read("h_tm1", 0, "h")>>
    ELSE <<Read("prev_output", 0, "h")>>

Cell_returns(a) ==
    IF a.class = "LSTMCell" THEN <<"h", "c">>
    ELSE IF a.class = "GRUCell" THEN <<"h">>
    ELSE <<"output">>

\* ---- GRUCond
GRUCond_get_initial_states(a) == recurrent_states(FALSE)

GRUCond_get_constants(a, given) ==
    <<DpItem("rec_dp_mask", a.rates["recurrent_dropout"])>>
    \o (IF a.static_ctx THEN <<DpItem("dp_mask", a.rates["dropout"])>>
        ELSE <<>>)
    \o <<Item("context", 0), MaskItem("mask_context", given)>>

GRUCond_reads(a) ==
    <<Read("h_tm1", 0, "h"), Read("rec_dp_mask", 1, "rec_dp_mask")>>
    \o (IF a.static_ctx
        THEN <<Read("dp_mask", 3, "dp_mask"), Read("context", 4, "context"),
               Read("mask_context", 5, "mask_context")>>
        ELSE <<>>)

\* ---- LSTMCond
LSTMCond_get_initial_states(a) == recurrent_states(TRUE)

LSTMCond_get_constants(a, given) ==
    <<DpItem("dp_mask", a.rates["dropout"]),
      DpItem("rec_dp_mask", a.rates["recurrent_dropout"])>>
    \o (IF a.static_ctx THEN <<Item("context", 0)>> ELSE <<>>)

LSTMCond_reads(a) ==
    <<Read("h_tm1", 0, "h"), Read("c_tm1", 1, "c"),
      Read("dp_mask", 2, "dp_mask"), Read("rec_dp_mask", 3, "rec_dp_mask")>>
    \o (IF a.static_ctx THEN <<Read("context", 4, "context")>> ELSE <<>>)

\* ---- AttGRU, AttLSTM: attention over the layer's own input
Self_get_initial_states(a) ==
    recurrent_states(a.class = "AttLSTM")
    \o <<Item("x_att", 0), Item("alphas", 0)>>

Self_get_constants(a) ==
    <<DpItem("dp_mask", a.rates["dropout"]),
      DpItem("rec_dp_mask", a.rates["recurrent_dropout"]),
      DpItem("att_dp_mask", a.rates["attention_dropout"]),
      Item("pctx", 0)>>

AttGRU_reads ==
    <<Read("h_tm1", 0, "h"), Read("non_used_x_att", 1, "x_att"),
      Read("non_used_alphas_att", 2, "alphas"), Read("dp_mask", 3, "dp_mask"),
      Read("rec_dp_mask", 4, "rec_dp_mask"),
      Read("att_dp_mask", 5, "att_dp_mask"), Read("pctx_", 6, "pctx"),
      Read("context", 7, "context")>>

AttLSTM_reads ==
    <<Read("h_tm1", 0, "h"), Read("c_tm1", 1, "c"),
      Read("non_used_x_att", 2, "x_att"),
      Read("non_used_alphas_att", 3, "alphas"), Read("dp_mask", 4, "dp_mask"),
      Read("rec_dp_mask", 5, "rec_dp_mask"),
      Read("att_dp_mask", 6, "att_dp_mask"), Read("pctx_", 7, "pctx")>>

\* the one attention computation of AttGRU, AttLSTM and the four Cond layers
Single_attends ==
    <<Attend(1, "pctx_", "context", "att_dp_mask",
             "attention_recurrent_kernel", "mask_context",
             <<"ctx_", "alphas">>)>>

\* mutant of Single_returns: the attention weights are not returned
Single_returns_NoAlphas(lstm) ==
    IF lstm THEN <<"h", "c", "ctx_">> ELSE <<"h", "ctx_">>

Single_returns(lstm) ==
    IF lstm THEN <<"h", "c", "ctx_", "alphas">> ELSE <<"h", "ctx_", "alphas">>

\* ---- AttGRUCond, AttConditionalGRUCond, AttLSTMCond,
\* ---- AttConditionalLSTMCond
Cond_layer(a) ==
    att_init(a.class, ModeStr("add"), 0, FALSE, a.rates["dropout"]).layer[1]

Cond_get_initial_states(a) ==
    LET tags(q) == [i \in 1 .. Len(q) |-> Item(q[i].tag, 0)]
    IN  tags(att_get_initial_states(Cond_layer(a), <<[k \in 1 .. ContextDim |-> 0]>>))

Cond_get_constants(a, given) ==
    LET tags(q) ==
            [i \in 1 .. Len(q) |->
                IF q[i].tag = "mask_context" THEN MaskItem(q[i].tag, given)
                ELSE IF q[i].tag \in {"dp_mask", "rec_dp_mask", "att_dp_mask"}
                THEN DpItem(q[i].tag, a.rates["dropout"])
                ELSE Item(q[i].tag, 0)]
    IN  tags(att_get_constants(Cond_layer(a), <<[k \in 1 .. ContextDim |-> 0]>>,
                               IF given THEN <<1>> ELSE None, FALSE))

Cond_reads(a) ==
    LET m == IF IsLSTM(a.class) THEN 1 ELSE 0
    IN  <<Read("h_tm1", 0, "h")>>
        \o (IF IsLSTM(a.class) THEN <<Read("c_tm1", 1, "c")>> ELSE <<>>)
        \o <<Read("non_used_x_att", 1 + m, "x_att"),
             Read("non_used_alphas_att", 2 + m, "alphas"),
             Read("dp_mask", 3 + m, "dp_mask"),
             Read("rec_dp_mask", 4 + m, "rec_dp_mask"),
             Read("att_dp_mask", 5 + m, "att_dp_mask"),
             Read("pctx_", 6 + m, "pctx"), Read("context", 7 + m, "context"),
             Read("mask_context", 8 + m, "mask_context")>>

\* ---- AttLSTMCond2Inputs, AttConditionalLSTMCond2Inputs
TwoInput_get_initial_states(a) ==
    recurrent_states(TRUE)
    \o <<Item("x_att", 0), Item("alphas", 0),
         Item("x_att2", 0), Item("alphas2", 0)>>

TwoInput_get_constants(a, given) ==
    <<DpItem("rec_dp_mask", a.rates["recurrent_dropout"]),
      DpItem("dp_mask2", a.rates["dropout2"]),
      DpItem("dp_mask", a.rates["dropout"]),
      DpItem("att_dp_mask", a.rates["attention_dropout"])>>
    \o (IF a.attend_on_both
        THEN <<DpItem("att_dp_mask2", a.rates["attention_dropout2"])>>
        ELSE <<>>)
    \o <<Item("context1", 0), MaskItem("mask_context1", given),
         Item("pctx_1", 0)>>
    \o (IF a.attend_on_both
        THEN <<Item("context2", 0), MaskItem("mask_context2", given),
               Item("pctx_2", 0)>>
        ELSE IF a.class = "AttConditionalLSTMCond2Inputs"
        THEN <<Item("context2", 0), Item("mask_context2", 2)>>
        ELSE <<>>)

TwoInput_reads(a) ==
    LET pos_states == 10
    IN  <<Read("h_tm1", 0, "h"), Read("c_tm1", 1, "c"),
          Read("non_used_x_att", 2, "x_att"),
          Read("non_used_alphas_att", 3, "alphas"),
          Read("non_used_x_att2", 4, "x_att2"),
          Read("non_used_alphas_att2", 5, "alphas2"),
          Read("rec_dp_mask", 6, "rec_dp_mask"),
          Read("dp_mask2", 7, "dp_mask2"), Read("dp_mask", 8, "dp_mask"),
          Read("att_dp_mask", 9, "att_dp_mask")>>
        \o (IF a.attend_on_both
            THEN <<Read("att_dp_mask2", pos_states, "att_dp_mask2"),
                   Read("context1", pos_states + 1, "context1"),
                   Read("mask_context1", pos_states + 2, "mask_context1"),
                   Read("pctx_1", pos_states + 3, "pctx_1"),
                   Read("context2", pos_states + 4, "context2"),
                   Read("mask_context2", pos_states + 5, "mask_context2"),
                   Read("pctx_2", pos_states + 6, "pctx_2")>>
            ELSE <<Read("context1", pos_states, "context1"),
                   Read("mask_context1", pos_states + 1, "mask_context1"),
                   Read("pctx_1", pos_states + 2, "pctx_1"),
                   Read("context2", pos_states + 3, "context2"),
                   Read("mask_context2", pos_states + 4, "mask_context2")>>)

\* the first attention assigns ctx_1, alphas1 in AttLSTMCond2Inputs and
\* ctx_, alphas in AttConditionalLSTMCond2Inputs; without attend_on_both
\* the second pair is the second context and its mask
TwoInput_attends(a) ==
    <<Attend(1, "pctx_1", "context", "att_dp_mask",
             "attention_recurrent_kernel", "mask_context1",
             IF a.class = "AttLSTMCond2Inputs" THEN <<"ctx_1", "alphas1">>
             ELSE <<"ctx_", "alphas">>)>>
    \o (IF a.attend_on_both
        THEN <<Attend(2, "pctx_1", "context", "att_dp_mask2",
                      "attention_recurrent_kernel2", "mask_context2",
                      <<"ctx_2", "alphas2">>)>>
        ELSE <<>>)

TwoInput_assigns(a) ==
    IF a.attend_on_both THEN <<>>
    ELSE <<[name |-> "ctx_2", from |-> "context2"],
           [name |-> "alphas2", from |-> "mask_context2"]>>

TwoInput_returns == <<"h", "c", "ctx_1", "alphas1", "ctx_2", "alphas2">>

\* ---- AttLSTMCond3Inputs
\* dropout_T, dropout_W and dropout_S: the mask is appended inside the
\* branch and once more after the if/else
ThreeInput_dropout(tag, rate) ==
    IF InRange(rate) THEN <<DpItem(tag, rate), DpItem(tag, rate)>>
    ELSE <<DpItem(tag, rate)>>

ThreeInput_get_initial_states(a) ==
    recurrent_states(TRUE)
    \o <<Item("x_att", 0), Item("alphas", 0), Item("x_att2", 0),
         Item("alphas2", 0), Item("x_att3", 0), Item("alphas3", 0)>>

ThreeInput_get_constants(a, given) ==
    <<DpItem("B_U", a.rates["dropout_U"])>>
    \o ThreeInput_dropout("B_T", a.rates["dropout_T"])
    \o ThreeInput_dropout("B_W", a.rates["dropout_W"])
    \o ThreeInput_dropout("B_S", a.rates["dropout_S"])
    \o <<DpItem("B_wa", a.rates["dropout_wa"]),
         DpItem("B_Wa", a.rates["dropout_Wa"])>>
    \o (IF a.attend_on_both
        THEN <<DpItem("B_wa2", a.rates["dropout_wa2"]),
               DpItem("B_Wa2", a.rates["dropout_Wa2"]),
               DpItem("B_wa3", a.rates["dropout_wa3"]),
               DpItem("B_Wa3", a.rates["dropout_Wa3"])>>
        ELSE <<>>)
    \o <<Item("context1", 0), MaskItem("mask_context1", given),
         Item("pctx_1", 0), Item("context2", 0),
         IF a.attend_on_both THEN MaskItem("mask_context2", given)
         ELSE Item("mask_context2", 2)>>
    \o (IF a.attend_on_both THEN <<Item("pctx_2", 0)>> ELSE <<>>)
    \o <<Item("context3", 0),
         IF a.attend_on_both THEN MaskItem("mask_context3", given)
         ELSE Item("mask_context3", 2)>>
    \o (IF a.attend_on_both THEN <<Item("pctx_3", 0)>> ELSE <<>>)

ThreeInput_reads(a) ==
    LET pos_states == 14
    IN  <<Read("h_tm1", 0, "h"), Read("c_tm1", 1, "c"),
          Read("non_used_x_att", 2, "x_att"),
          Read("non_used_alphas_att", 3, "alphas"),
          Read("non_used_x_att2", 4, "x_att2"),
          Read("non_used_alphas_att2", 5, "alphas2"),
          Read("non_used_x_att3", 6, "x_att3"),
          Read("non_used_alphas_att3", 7, "alphas3"),
          Read("B_U", 8, "B_U"), Read("B_T", 9, "B_T"),
          Read("B_W", 10, "B_W"), Read("B_S", 11, "B_S"),
          Read("B_wa", 12, "B_wa"), Read("B_Wa", 13, "B_Wa")>>
        \o (IF a.attend_on_both
            THEN <<Read("B_wa2", pos_states, "B_wa2"),
                   Read("B_Wa2", pos_states + 1, "B_Wa2"),
                   Read("B_wa3", pos_states + 2, "B_wa3"),
                   Read("B_Wa3", pos_states + 3, "B_Wa3"),
                   Read("context1", pos_states + 4, "context1"),
                   Read("mask_context1", pos_states + 5, "mask_context1"),
                   Read("pctx_1", pos_states + 6, "pctx_1"),
                   Read("context2", pos_states + 7, "context2"),
                   Read("mask_context2", pos_states + 8, "mask_context2"),
                   Read("pctx_2", pos_states + 9, "pctx_2"),
                   Read("context3", pos_states + 10, "context3"),
                   Read("mask_context3", pos_states + 11, "mask_context3"),
                   Read("pctx_3", pos_states + 12, "pctx_3")>>
            ELSE <<Read("context1", pos_states, "context1"),
                   Read("mask_context1", pos_states + 1, "mask_context1"),
                   Read("pctx_1", pos_states + 2, "pctx_1"),
                   Read("context2", pos_states + 3, "context2"),
                   Read("mask_context2", pos_states + 4, "mask_context2"),
                   Read("context3", pos_states + 5, "context3"),
                   Read("mask_context3", pos_states + 6, "mask_context3")>>)

\* attention 1 is written out in step, attentions 2 and 3 call
\* compute_attention
ThreeInput_attends(a) ==
    <<Attend(1, "pctx_1", "context1", "B_Wa", "Wa", "mask_context1",
             <<"ctx_1", "alphas1">>)>>
    \o (IF a.attend_on_both
        THEN <<Attend(2, "pctx_", "context", "B_Wa2", "Wa2", "mask_context2",
                      <<"ctx_2", "alphas2">>),
               Attend(3, "pctx_", "context", "B_Wa3", "Wa3", "mask_context3",
                      <<"ctx_3", "alphas3">>)>>
        ELSE <<>>)

ThreeInput_assigns(a) ==
    IF a.attend_on_both THEN <<>>
    ELSE <<[name |-> "ctx_2", from |-> "context2"],
           [name |-> "alphas2", from |-> "mask_context2"],
           [name |-> "ctx_3", from |-> "context3"],
           [name |-> "alphas3", from |-> "mask_context3"]>>

ThreeInput_returns ==
    <<"h", "c", "ctx_1", "alphas1", "ctx_2", "alphas2", "ctx_3", "alphas3">>

\* ---- dispatch on the class
get_initial_states(a) ==
    IF a.class \in CellClasses THEN Cell_get_initial_states(a)
    ELSE IF a.class = "GRUCond" THEN GRUCond_get_initial_states(a)
    ELSE IF a.class = "LSTMCond" THEN LSTMCond_get_initial_states(a)
    ELSE IF a.class \in SelfClasses THEN Self_get_initial_states(a)
    ELSE IF a.class \in CondClasses THEN Cond_get_initial_states(a)
    ELSE IF a.class \in TwoInputClasses THEN TwoInput_get_initial_states(a)
    ELSE ThreeInput_get_initial_states(a)

get_constants(a, given) ==
    IF a.class \in CellClasses THEN <<>>
    ELSE IF a.class = "GRUCond" THEN GRUCond_get_constants(a, given)
    ELSE IF a.class = "LSTMCond" THEN LSTMCond_get_constants(a, given)
    ELSE IF a.class \in SelfClasses THEN Self_get_constants(a)
    ELSE IF a.class \in CondClasses THEN Cond_get_constants(a, given)
    ELSE IF a.class \in TwoInputClasses THEN TwoInput_get_constants(a, given)
    ELSE ThreeInput_get_constants(a, given)

step_reads(a) ==
    IF a.class \in CellClasses THEN Cell_reads(a)
    ELSE IF a.class = "GRUCond" THEN GRUCond_reads(a)
    ELSE IF a.class = "LSTMCond" THEN LSTMCond_reads(a)
    ELSE IF a.class = "AttGRU" THEN AttGRU_reads
    ELSE IF a.class = "AttLSTM" THEN AttLSTM_reads
    ELSE IF a.class \in CondClasses THEN Cond_reads(a)
    ELSE IF a.class \in TwoInputClasses THEN TwoInput_reads(a)
    ELSE ThreeInput_reads(a)

step_attends(a) ==
    IF a.class \in CellClasses \cup StaticClasses THEN <<>>
    ELSE IF a.class \in SelfClasses \cup CondClasses THEN Single_attends
    ELSE IF a.class \in TwoInputClasses THEN TwoInput_attends(a)
    ELSE ThreeInput_attends(a)

step_assigns(a) ==
    IF a.class \in TwoInputClasses THEN TwoInput_assigns(a)
    ELSE IF a.class = "AttLSTMCond3Inputs" THEN ThreeInput_assigns(a)
    ELSE <<>>

step_returns(a) ==
    IF a.class \in CellClasses THEN Cell_returns(a)
    ELSE IF a.class = "GRUCond" THEN <<"h">>
    ELSE IF a.class = "LSTMCond" THEN <<"h", "c">>
    ELSE IF a.class \in SelfClasses \cup CondClasses
    THEN Single_returns(IsLSTM(a.class))
    ELSE IF a.class \in TwoInputClasses THEN TwoInput_returns
    ELSE ThreeInput_returns

\* the names step has bound once its reads, attentions and assignments ran
\* (h, c and output are computed by the recurrence itself)
Range(q) == {q[i] : i \in 1 .. Len(q)}

names_read(a) == {r.name : r \in Range(step_reads(a))}

names_bound(a) ==
    names_read(a) \cup {"h", "c", "output"}
    \cup UNION {Range(at.out) : at \in Range(step_attends(a))}
    \cup {as.name : as \in Range(step_assigns(a))}

\* the names step uses: the arguments of its attentions, the sources of its
\* assignments and what it returns
names_used(a) ==
    UNION {{at.pctx_, at.context, at.att_dp_mask, at.mask_context} :
              at \in Range(step_attends(a))}
    \cup {as.from : as \in Range(step_assigns(a))}
    \cup Range(step_returns(a))

\* one run of step on the list the scan driver hands over: the reads come
\* first and fail on the first index past the end, then a name that was
\* never bound fails where it is used
run_step(a, states) ==
    LET reads == step_reads(a)
        bound == [i \in 1 .. Len(reads) |->
                     [name |-> reads[i].name, index |-> reads[i].index,
                      expects |-> reads[i].expects,
                      item |-> StateAt(states, reads[i].index)]]
        raised == IF \E i \in 1 .. Len(reads) : reads[i].index >= Len(states)
                  THEN "IndexError"
                  ELSE IF names_used(a) \ names_bound(a) # {}
                  THEN "NameError"
                  ELSE ""
    IN  [raised |-> raised, reads |-> bound, attends |-> step_attends(a),
         unbound |-> names_used(a) \ names_bound(a),
         returned |-> IF raised = "" THEN <<step_returns(a)>> ELSE None]

\* constructor arguments: any class, the two layout switches where the
\* class has them, and at most two dropout rates strictly between 0 and 1
StepLayers ==
    UNION {{[class |-> class, static_ctx |-> s, attend_on_both |-> b,
             rates |-> [n \in RateNames(class) |->
                           IF n \in on THEN 50 ELSE 0]] :
               s \in (IF class \in StaticClasses THEN BOOLEAN ELSE {FALSE}),
               b \in (IF class \in TwoInputClasses \cup {"AttLSTMCond3Inputs"}
                      THEN BOOLEAN ELSE {FALSE}),
               on \in {o \in SUBSET RateNames(class) : Cardinality(o) <= 2}} :
           class \in StepClasses}

StepInit ==
    /\ layer = None /\ built = FALSE /\ input_spec = None
    /\ state_spec = None /\ _states = None /\ updates = <<>> /\ ncalls = 0
    /\ carry = None /\ last = NoLast /\ cells = <<>>
    /\ cell = None
    /\ att \in {<<a>> : a \in StepLayers}
    /\ ret = NoRet

\* the first timestep of call: get_initial_states, get_constants, then the
\* scan driver runs step on the initial states followed by the constants
StepCall(given) ==
    LET done(initial_states, constants) ==
          LET finish(r) ==
                ret' = [op |-> "step", given |-> given,
                        initial_states |-> initial_states,
                        constants |-> constants,
                        states |-> scan_states(initial_states, constants),
                        raised |-> r.raised, reads |-> r.reads,
                        attends |-> r.attends, unbound |-> r.unbound,
                        returned |-> r.returned]
          IN  finish(run_step(att[1], scan_states(initial_states, constants)))
    IN  /\ done(get_initial_states(att[1]), get_constants(att[1], given))
        /\ UNCHANGED <<layer, cell, built, input_spec, state_spec, _states,
                       updates, ncalls, carry, last, cells, att>>

StepNext == \E given \in BOOLEAN : StepCall(given)

StepSpec == StepInit /\ [][StepNext]_vars

\* ------------------------------------------- RNN.__call__, Keras tensors
\* In this specification input_spec is the whole list self.input_spec:
\* entry 1 is input_spec[0] as in the wrapper above, the entries after it
\* are the specs of the initial states. All tensors of one initial_state
\* list are of one kind, Keras tensors or not.

\* the base layer's __call__ as far as this file sees it: build on first
\* use, then call; ispecs is the list self.input_spec holds meanwhile, of
\* which build rebinds entry 0
super__call__(lay, c, b, ispecs, sspec, sts, x, initial_state, training) ==
    LET after_build(bd, specs) ==
            IF bd.raised # ""
            THEN [raised |-> bd.raised, stage |-> "build", built |-> b,
                  input_spec |-> specs, state_spec |-> bd.state_spec,
                  states |-> bd.states, cell |-> c]
            ELSE LET done(r) ==
                         [raised |-> r.raised, stage |-> "call",
                          built |-> TRUE, input_spec |-> specs,
                          state_spec |-> bd.state_spec, states |-> r.states,
                          cell |-> r.cell]
                 IN  done(layer_call(lay, c, bd.states, x, initial_state,
                                     training))
        built_now(bd) == after_build(bd, [ispecs EXCEPT ![1] = bd.input_spec])
    IN  IF b
        THEN after_build([raised |-> "", state_spec |-> sspec, states |-> sts],
                         ispecs)
        ELSE built_now(build(lay, c, sspec, sts, x.batch))

\* RNN.__call__(inputs, initial_state, **kwargs): without initial_state the
\* base layer's __call__; with one, state_spec is set from it and, for
\* Keras tensors, input_spec is the extended list while the base layer's
\* __call__ runs and the original list once it has returned
__call__(lay, c, b, ispecs, sspec, sts, x, initial_state, is_keras_tensor, training) ==
    LET additional_specs ==
            [i \in 1 .. Len(initial_state) |-> [shape |-> initial_state[i].shape]]
        state_spec_ ==
            [i \in 1 .. Len(initial_state) |-> initial_state[i].shape[2]]
        restore(r) == IF r.raised = "" THEN [r EXCEPT !.input_spec = ispecs]
                      ELSE r
    IN  IF initial_state = None
        THEN super__call__(lay, c, b, ispecs, sspec, sts, x, None, training)
        ELSE IF is_keras_tensor
        THEN restore(super__call__(lay, c, b, ispecs \o additional_specs,
                                   state_spec_, sts, x, initial_state,
                                   training))
        ELSE super__call__(lay, c, b, ispecs, state_spec_, sts, x,
                           initial_state, training)

KerasInit ==
    /\ layer \in Layers
    /\ cell = [kind |-> CellOf(layer.class), dropout |-> layer.dropout,
               recurrent_dropout |-> layer.recurrent_dropout,
               use_bias |-> TRUE, implementation |-> 2, reset_after |-> FALSE,
               _dropout_mask |-> None, _recurrent_dropout_mask |-> None,
               ngen |-> 0]
    /\ built = FALSE
    /\ input_spec = <<None>>
    /\ state_spec = None
    /\ _states = None
    /\ updates = <<>> /\ ncalls = 0 /\ carry = None /\ last = NoLast
    /\ cells = <<>> /\ att = None /\ ret = NoRet

KerasCall(x, initial_state, is_keras_tensor, training) ==
    LET done(r) ==
            /\ built' = r.built
            /\ cell' = r.cell
            /\ input_spec' = r.input_spec
            /\ state_spec' = r.state_spec
            /\ _states' = r.states
            /\ ret' = [op |-> "__call__", initial_state |-> initial_state,
                       is_keras_tensor |-> is_keras_tensor,
                       raised |-> r.raised, stage |-> r.stage,
                       original_input_spec |-> input_spec]
    IN  /\ ncalls < MaxCalls
        /\ built => x.batch = <<BatchSize>>
        /\ training => (InRange(cell.dropout) \/ InRange(cell.recurrent_dropout))
        /\ initial_state = None => ~is_keras_tensor
        /\ ncalls' = ncalls + 1
        /\ done(__call__(layer, cell, built, input_spec, state_spec, _states,
                         x, initial_state, is_keras_tensor, training))
        /\ UNCHANGED <<layer, updates, carry, last, cells, att>>

KerasNext ==
    \E x \in InputTensors, initial_state \in InitialStates,
       is_keras_tensor \in BOOLEAN, training \in BOOLEAN :
        KerasCall(x, initial_state, is_keras_tensor, training)

KerasSpec == KerasInit /\ [][KerasNext]_vars

\* ------------------------------------------------------------ properties
\* the step is a top-level call that got as far as RNN.call
CallStep == last'.op = "__call__" /\ ncalls' = ncalls + 1 /\ last'.stage = "call"

Returned == CallStep /\ last'.raised = ""

\* C1: on a stateful layer, a call without explicit initial_state that
\* follows an earlier call with no reset_states in between starts from the
\* final states the scan returned in that earlier call.
C1_CarriedOver ==
    [][(Returned /\ layer.stateful /\ last'.initial_state = None
        /\ carry # None)
       => last'.initial = carry[1]]_vars

C1_Witness ==
    /\ last.op = "__call__" /\ last.raised = "" /\ layer.stateful
    /\ last.initial_state = None /\ last.carried
    /\ \E i \in 1 .. Len(last.initial) : last.initial[i] # 0

\* C2: the initial state of a call is the explicit list when one is passed
\* (stateful or not), else the carried-over states of a stateful layer, else
\* one zero per declared state size.
C2_InitialStatePriority ==
    [][Returned =>
        /\ last'.initial_state # None
              => last'.initial = Vals(last'.initial_state)
        /\ (last'.initial_state = None /\ layer.stateful)
              => last'.initial = IF built THEN Vals(_states)
                                 ELSE [i \in 1 .. Len(state_size(cell)) |-> 0]
        /\ (last'.initial_state = None /\ ~layer.stateful)
              => last'.initial = [i \in 1 .. Len(state_size(cell)) |-> 0]]_vars

C2_Witness ==
    /\ last.op = "__call__" /\ last.raised = "" /\ layer.stateful
    /\ last.initial_state # None /\ last.carried
    /\ last.initial = Vals(last.initial_state)
    /\ \E i \in 1 .. Len(last.initial) : last.initial[i] # 0

\* C3: a call on a stateful layer registers exactly one update per
\* carried-over state, state i := final state i; a call on a layer that is
\* not stateful leaves the carried-over states as they were.
C3_OneUpdatePerState ==
    [][Returned =>
        IF layer.stateful
        THEN /\ Len(updates') = Len(_states')
             /\ \A i \in 1 .. Len(updates') :
                   updates'[i] = [index |-> i, value |-> last'.final[i]]
             /\ Vals(_states') = last'.final
        ELSE _states' = _states /\ updates' = <<>>]_vars

C3_Witness ==
    /\ last.op = "__call__" /\ last.raised = "" /\ layer.stateful
    /\ Len(updates) = 2 /\ updates[1].value # updates[2].value

\* C4: reset_states() sets every carried-over state to zeros of shape
\* (batch_size, dim_i), whatever the earlier calls left there, so the next
\* call without initial_state returns what a call with an explicit all-zero
\* initial_state returns on the same batch.
C4_ResetThenCall ==
    [][(/\ Returned /\ layer.stateful /\ last'.initial_state = None
        /\ last.op = "reset_states" /\ last.raised = "" /\ last.values = None)
       => /\ _states = zeros(cell, BatchSize)
          /\ last'.output =
                layer_call(layer, cell, _states,
                           [batch |-> <<BatchSize>>,
                            timesteps |-> last'.timesteps, xs |-> last'.xs],
                           get_initial_state(cell, BatchSize),
                           last'.training).output]_vars

C4_Witness ==
    /\ last.op = "__call__" /\ last.raised = "" /\ layer.class = "LSTM"
    /\ layer.stateful /\ last.initial_state = None /\ last.after_reset
    /\ last.initial = <<0, 0>>

\* C5: after reset_states(states=v) returns without error on a stateful
\* layer, carried-over state i holds v[i], whether or not the states had
\* been initialised before.
C5_ResetAssignsValues ==
    (last.op = "reset_states" /\ last.raised = "" /\ last.values # None)
        => _states = last.values

\* C6: reset_states raises on a layer that is not stateful and on a stateful
\* layer whose input spec has no static batch size, and leaves the
\* carried-over states as they were.
ResetStep == last'.op = "reset_states" /\ ncalls' = ncalls

C6_ResetRaises ==
    [][(ResetStep /\ (\/ ~layer.stateful
                      \/ input_spec = None
                      \/ input_spec[1] = None))
       => (last'.raised # "" /\ _states' = _states)]_vars

C6_Witness ==
    /\ last.op = "reset_states" /\ last.raised = "ValueError"
    /\ layer.stateful /\ input_spec = <<None>> /\ _states = None

\* C7: a call whose number of initial states differs from the number of
\* states of the cell raises before the scan driver is invoked and
\* registers no update.
C7_StateCountChecked ==
    [][(/\ CallStep /\ last'.initial_state # None
        /\ Len(last'.initial_state) # Len(state_size(cell)))
       => /\ last'.raised = "ValueError: states"
          /\ ~last'.scanned
          /\ updates' = updates
          /\ built => _states' = _states]_vars

C7_Witness ==
    /\ last.op = "__call__" /\ last.raised = "ValueError: states"
    /\ layer.stateful /\ updates # <<>> /\ ~last.scanned

\* C8: with unroll set, a call raises before the scan driver is invoked when
\* the static time dimension is None or 1; it does not raise for that reason
\* for another length or with unroll unset.
C8_UnrollChecked ==
    (last.op = "__call__" /\ last.stage = "call")
        => /\ (layer.unroll /\ last.timesteps \in {None, <<1>>})
                 => /\ last.raised \in {"ValueError: unroll",
                                        "ValueError: states"}
                    /\ ~last.scanned
           /\ last.raised = "ValueError: unroll"
                 => (layer.unroll /\ last.timesteps \in {None, <<1>>})

C8_Witness ==
    /\ last.op = "__call__" /\ last.raised = "ValueError: unroll"
    /\ last.timesteps = <<1>> /\ ~last.scanned

\* C9: within one call of SimpleRNN, GRU or LSTM with a dropout rate
\* strictly between 0 and 1, each mask is generated once, at the first
\* timestep, and every later timestep multiplies by that same mask.
GeneratedBy(c) ==
    (IF InRange(c.dropout) THEN 1 ELSE 0)
    + (IF InRange(c.recurrent_dropout) THEN 1 ELSE 0)

C9_MaskOncePerCall ==
    [][(Returned /\ layer.class \in Subclasses)
       => LET tr == last'.trace
          IN  /\ tr[1].ngen - cell.ngen = GeneratedBy(cell)
              /\ \A t \in 1 .. Len(tr) :
                    /\ tr[t].ngen = tr[1].ngen
                    /\ tr[t].dp = tr[1].dp
                    /\ tr[t].rec = tr[1].rec
                    /\ InRange(cell.dropout) => tr[t].dp # None
                    /\ InRange(cell.recurrent_dropout)
                          => tr[t].rec # None]_vars

C9_Witness ==
    /\ last.op = "__call__" /\ last.raised = "" /\ layer.class = "GRU"
    /\ Len(last.trace) >= 2 /\ last.training
    /\ last.trace[2].dp # None /\ last.trace[2].dp = last.trace[1].dp
    /\ last.trace[2].rec # None /\ last.trace[2].rec = last.trace[1].rec

\* C10: every call of SimpleRNN, GRU or LSTM drops the cell's cached masks
\* before RNN.call runs, so every mask a timestep multiplies by was
\* generated during that call.
Fresh(m, ngen) == m = None \/ m[1].id > ngen

C10_MasksCleared ==
    [][(CallStep /\ layer.class \in Subclasses)
       => /\ Fresh(cell'._dropout_mask, cell.ngen)
          /\ Fresh(cell'._recurrent_dropout_mask, cell.ngen)
          /\ \A t \in 1 .. Len(last'.trace) :
                /\ Fresh(last'.trace[t].dp, cell.ngen)
                /\ Fresh(last'.trace[t].rec, cell.ngen)]_vars

C10_Witness ==
    /\ last.op = "__call__" /\ last.raised = "" /\ layer.class \in Subclasses
    /\ ncalls = 2 /\ layer.dropout = 0 /\ last.trace[1].rec # None
    /\ last.trace[1].rec[1].id = 2

\* C14: call returns the full output sequence with return_sequences and the
\* last output without, followed with return_state by all final states in
\* order; compute_output_shape and compute_mask return as many entries as
\* call does: 1 + number of states with return_state, one without.
C14_ReturnedStructure ==
    [][Returned =>
        LET out == last'.output
            n == Len(last'.xs)
            shapes == compute_output_shape(layer, cell', <<input_spec'[1],
                                                           last'.timesteps>>)
            masks == compute_mask(layer, cell', _states', None)
        IN  /\ out[1].seq = layer.return_sequences
            /\ Len(out[1].v) = IF layer.return_sequences THEN n ELSE 1
            /\ out[1].v[Len(out[1].v)] = last'.final[1]
            /\ Len(out) = IF layer.return_state THEN 1 + Len(last'.final)
                          ELSE 1
            /\ \A i \in 2 .. Len(out) :
                  out[i] = [seq |-> FALSE, v |-> <<last'.final[i - 1]>>]
            /\ Len(shapes) = Len(out)
            /\ Len(masks) = Len(out)
            /\ Len(shapes[1]) = IF layer.return_sequences THEN 3 ELSE 2]_vars

C14_Witness ==
    /\ last.op = "__call__" /\ last.raised = "" /\ layer.class = "LSTM"
    /\ layer.return_sequences /\ layer.return_state
    /\ Len(last.output) = 3 /\ Len(last.output[1].v) = 2
    /\ last.output[2].v # last.output[3].v

\* the cells' chunks in the reversed layout: cell i owns the positions
\* Offset(cs, i) + 1 .. Offset(cs, i) + number of states of cell i
RECURSIVE Offset(_, _)
Offset(cs, i) ==
    IF i >= Len(cs) THEN 0
    ELSE Len(cs[i + 1].state_size.dims) + Offset(cs, i + 1)

\* C11: StackedRNNCells.state_size is the concatenation of the cells' state
\* sizes with the cells enumerated last-to-first; for state sizes [2] and
\* [3] it is (3, 2); its first entry is the first state size of the last
\* cell.
C11_StateSizeReversed ==
    ret.op = "state_size" =>
        /\ \A i \in 1 .. Len(cells) :
              \A k \in 1 .. Len(cells[i].state_size.dims) :
                 ret.value[Offset(cells, i) + k] = cells[i].state_size.dims[k]
        /\ Len(ret.value) = Offset(cells, 0)
        /\ ret.value[1] = cells[Len(cells)].state_size.dims[1]
        /\ (/\ Len(cells) = 2
            /\ cells[1].state_size.dims = <<Units>>
            /\ cells[2].state_size.dims = <<Units + 1>>)
              => ret.value = <<Units + 1, Units>>

C11_Witness ==
    /\ ret.op = "state_size" /\ Len(cells) = 2
    /\ cells[1].state_size = [has_len |-> FALSE, dims |-> <<Units>>]
    /\ cells[2].state_size = [has_len |-> FALSE, dims |-> <<Units + 1>>]
    /\ ret.value = <<Units + 1, Units>>

\* what cell i of the stack is called with, and what it returns
RECURSIVE InputOf(_, _, _, _)
InputOf(cs, i, inputs, states) ==
    IF i = 1 THEN inputs
    ELSE stacked_cell_call(
             cs[i - 1], InputOf(cs, i - 1, inputs, states),
             SubSeq(states, Offset(cs, i - 1) + 1,
                    Offset(cs, i - 1) + cell_num_states(cs[i - 1]))).output

\* C12: StackedRNNCells.call runs the cells in forward order, each on the
\* previous cell's output and on its own chunk of the flat state list in
\* the reversed layout, and returns the last cell's output with the new
\* states in the same reversed layout and of the same length.
C12_CallKeepsLayout ==
    ret.op = "call" =>
        /\ Len(ret.new_states) = Len(ret.states)
        /\ \A i \in 1 .. Len(cells) :
              LET r == stacked_cell_call(
                           cells[i],
                           InputOf(cells, i, ret.inputs, ret.states),
                           SubSeq(ret.states, Offset(cells, i) + 1,
                                  Offset(cells, i)
                                  + cell_num_states(cells[i])))
              IN  /\ \A k \in 1 .. cell_num_states(cells[i]) :
                        ret.new_states[Offset(cells, i) + k] = r.states[k]
                  /\ i = Len(cells) => ret.output = r.output

C12_Witness ==
    /\ ret.op = "call" /\ Len(cells) = 2
    /\ cells[1].state_size.has_len /\ ~cells[2].state_size.has_len
    /\ Len(ret.new_states) = 3
    /\ ret.new_states[1][1] = 221 /\ ret.new_states[2][1] = 211
    /\ ret.new_states[3][1] = 212

\* C13: get_weights() called after set_weights(w) returns w, for a stack of
\* any number of cells.
C13_SetThenGetWeights ==
    (ret.op = "get_weights" /\ ret.after # None) => ret.value = ret.after[1]

\* C19: with the same weights, input, previous state, use_bias, reset_after
\* and mask list, GRUCell computes the same new state h under implementation
\* mode 1 and under any other mode, with and without dropout.
C19_ModesAgree ==
    ret.op = "GRUCell.call" => ret.h = ret.other

\* the two modes agree whenever no mask is applied
C19_ModesAgreeWithoutDropout ==
    (/\ ret.op = "GRUCell.call"
     /\ ~InRange(cell.dropout) /\ ~InRange(cell.recurrent_dropout))
        => ret.h = ret.other

\* C15: compute_attention takes the additive score for 'add' and
\* 'bahdanau', the multiplicative score for 'dot' and 'luong', the caller's
\* function when attention_mode is callable, and raises for any other value
\* without returning a context or weights.
C15_ModeSelectsScore ==
    ret.op = "compute_attention" =>
        LET mode == ret.attention_mode
            p_state_ == ret.h_tm1 * attention_recurrent_kernel
        IN  IF mode.callable
            THEN /\ ret.raised = ""
                 /\ ret.score = custom_score(mode.name, ret.h_tm1, ret.pctx_,
                                             ret.context)
            ELSE IF mode.name \in {"add", "bahdanau"}
            THEN /\ ret.raised = ""
                 /\ ret.score = additive_score(p_state_, ret.pctx_)
            ELSE IF mode.name \in {"dot", "luong"}
            THEN /\ ret.raised = ""
                 /\ ret.score = multiplicative_score(p_state_, ret.pctx_)
            ELSE /\ ret.raised # ""
                 /\ ret.alphas = None /\ ret.ctx_ = None

C15_Witness ==
    /\ ret.op = "compute_attention" /\ ret.raised = ""
    /\ ret.attention_mode = ModeStr("luong")
    /\ ret.score = multiplicative_score(ret.h_tm1, ret.pctx_)
    /\ ret.score # additive_score(ret.h_tm1, ret.pctx_)
    /\ ret.alphas.num # [t \in 1 .. Len(ret.context) |-> 1]

\* C16: every attentional layer accepts a callable attention_mode at
\* construction and stores it, so that step hands it to compute_attention.
C16_CallableModeStored ==
    (ret.op = "__init__" /\ ret.attention_mode.callable)
        => /\ ret.raised = ""
           /\ att # None
           /\ att[1].attention_mode = ret.attention_mode

\* the positions of a context the mask leaves valid
Valid(mask_context, n) ==
    {t \in 1 .. n : mask_context.ndim > 1 => mask_context.v[t] = 1}

\* C17: the attention weights compute_attention returns sum to 1 over the
\* valid (unmasked) context positions.
C17_AlphasSumToOne ==
    (ret.op = "compute_attention" /\ ret.raised = "")
        => SumSeq([t \in 1 .. Len(ret.context) |->
                      IF t \in Valid(ret.mask_context, Len(ret.context))
                      THEN ret.alphas.num[t] ELSE 0]) = ret.alphas.den

\* over the whole time axis the weights do sum to 1
C17_AlphasSumToOneOverTime ==
    (ret.op = "compute_attention" /\ ret.raised = "")
        => SumSeq(ret.alphas.num) = ret.alphas.den

\* C18: the mask derived for a context given without one marks a timestep
\* valid exactly when its feature vector is not entirely equal to
\* mask_value.
C18_DerivedMask ==
    (ret.op = "call" /\ ret.scanned /\ ret.mask_context = None)
        => \A t \in 1 .. Len(ret.context) :
              (ret.bound[1].mask_context.val[t] = 1)
                  <=> (\E k \in 1 .. ContextDim :
                          ret.context[t][k] # att[1].mask_value)

C28_FailedResetKeepsStates ==
    [][(/\ last'.op = "reset_states" /\ last'.raised = "ValueError"
        /\ last'.values # None)
       => _states' = _states]_vars

\* a wrong number of values is detected before any assignment
C28_CountMismatchKeepsStates ==
    [][(/\ last'.op = "reset_states" /\ last'.raised = "ValueError"
        /\ last'.values # None /\ _states # None
        /\ Len(last'.values) # Len(_states))
       => _states' = _states]_vars

\* C30: __call__ with Keras-tensor initial_state replaces self.input_spec
\* by the extended list only while the inner call runs: when __call__
\* finishes, by returning or by raising, input_spec is what it was before.
C30_InputSpecRestored ==
    [][(/\ ret'.op = "__call__" /\ ncalls' = ncalls + 1
        /\ ret'.is_keras_tensor)
       => input_spec' = input_spec]_vars

\* it is what it was before whenever __call__ returns
C30_InputSpecRestoredOnReturn ==
    [][(/\ ret'.op = "__call__" /\ ncalls' = ncalls + 1
        /\ ret'.is_keras_tensor /\ ret'.raised = "")
       => input_spec' = input_spec]_vars

\* C29: a generic RNN layer wrapping a cell directly, with a dropout rate
\* strictly between 0 and 1, also gets fresh masks at every call: no mask
\* the cell cached during an earlier call is used by a timestep of a later
\* call.
C29_GenericMasksFresh ==
    [][(CallStep /\ layer.class = "RNN")
       => \A t \in 1 .. Len(last'.trace) :
             /\ Fresh(last'.trace[t].dp, cell.ngen)
             /\ Fresh(last'.trace[t].rec, cell.ngen)]_vars

\* the first call of a generic RNN layer does generate its masks
C29_FirstCallGenerates ==
    [][(CallStep /\ layer.class = "RNN" /\ cell._dropout_mask = None
        /\ cell._recurrent_dropout_mask = None)
       => \A t \in 1 .. Len(last'.trace) :
             /\ Fresh(last'.trace[t].dp, cell.ngen)
             /\ Fresh(last'.trace[t].rec, cell.ngen)]_vars

\* every `name = states[index]` of the step just run lies within the list
\* and finds there the entry the name stands for
ReadsMatch ==
    \A i \in 1 .. Len(ret.reads) :
        /\ ret.reads[i].index < Len(ret.states)
        /\ ret.reads[i].item.tag = ret.reads[i].expects

\* C21: for GRUCond and LSTMCond with a static context, every index step
\* reads holds the item get_constants placed there (recurrent-dropout mask,
\* input-dropout mask, context, context mask) and none is past the end of
\* the initial states plus constants.
C21_StaticContextReads ==
    (ret.op = "step" /\ att[1].class \in StaticClasses /\ att[1].static_ctx)
        => ReadsMatch

\* LSTMCond keeps the contract, with or without a static context
C21_LSTMCondReads ==
    (ret.op = "step" /\ att[1].class = "LSTMCond") => ReadsMatch

\* C22: for AttLSTMCond2Inputs and AttConditionalLSTMCond2Inputs, with and
\* without attend_on_both, every index step reads lies within the initial
\* states plus constants and holds the item get_constants appended there.
C22_TwoInputReads ==
    (ret.op = "step" /\ att[1].class \in TwoInputClasses) => ReadsMatch

\* the contract is kept when attending on both contexts, and by
\* AttConditionalLSTMCond2Inputs in either setting
C22_TwoInputReadsOnBoth ==
    (/\ ret.op = "step" /\ att[1].class \in TwoInputClasses
     /\ (\/ att[1].attend_on_both
         \/ att[1].class = "AttConditionalLSTMCond2Inputs"))
        => ReadsMatch

\* what the k-th attention of a multi-context layer is to receive: the
\* k-th projected keys, raw keys, mask, kernel set and attention-dropout
\* mask
KthAttention(class, k) ==
    IF class \in TwoInputClasses
    THEN IF k = 1
         THEN [pctx_ |-> "pctx_1", context |-> "context1",
               att_dp_mask |-> "att_dp_mask",
               kernel |-> "attention_recurrent_kernel",
               mask_context |-> "mask_context1"]
         ELSE [pctx_ |-> "pctx_2", context |-> "context2",
               att_dp_mask |-> "att_dp_mask2",
               kernel |-> "attention_recurrent_kernel2",
               mask_context |-> "mask_context2"]
    ELSE IF k = 1
         THEN [pctx_ |-> "pctx_1", context |-> "context1",
               att_dp_mask |-> "B_Wa", kernel |-> "Wa",
               mask_context |-> "mask_context1"]
    ELSE IF k = 2
         THEN [pctx_ |-> "pctx_2", context |-> "context2",
               att_dp_mask |-> "B_Wa2", kernel |-> "Wa2",
               mask_context |-> "mask_context2"]
         ELSE [pctx_ |-> "pctx_3", context |-> "context3",
               att_dp_mask |-> "B_Wa3", kernel |-> "Wa3",
               mask_context |-> "mask_context3"]

Received(at) ==
    [pctx_ |-> at.pctx_, context |-> at.context,
     att_dp_mask |-> at.att_dp_mask, kernel |-> at.kernel,
     mask_context |-> at.mask_context]

\* C23: in the multi-context variants with attend_on_both, the k-th
\* attention receives the projected keys, raw keys and mask of the k-th
\* context with the k-th kernel set and attention-dropout mask, never
\* another context's keys.
C23_KthAttentionOwnContext ==
    (/\ ret.op = "step" /\ att[1].attend_on_both
     /\ att[1].class \in TwoInputClasses \cup {"AttLSTMCond3Inputs"})
        => \A i \in 1 .. Len(ret.attends) :
              Received(ret.attends[i])
                  = KthAttention(att[1].class, ret.attends[i].k)

\* every attention does get its own kernel set, dropout mask and key mask
C23_KthAttentionOwnKernel ==
    (/\ ret.op = "step" /\ att[1].attend_on_both
     /\ att[1].class \in TwoInputClasses \cup {"AttLSTMCond3Inputs"})
        => \A i \in 1 .. Len(ret.attends) :
              LET at == ret.attends[i]
                  own == KthAttention(att[1].class, at.k)
              IN  /\ at.kernel = own.kernel
                  /\ at.att_dp_mask = own.att_dp_mask
                  /\ at.mask_context = own.mask_context

\* C25: for AttGRU and AttLSTM every index step reads is smaller than the
\* number of initial states plus constants, and the projected keys, raw
\* keys and key mask step passes to compute_attention are entries of that
\* list.
C25_SelfAttentionReads ==
    (ret.op = "step" /\ att[1].class \in SelfClasses)
        => /\ \A i \in 1 .. Len(ret.reads) :
                 ret.reads[i].index < Len(ret.states)
           /\ \A j \in 1 .. Len(ret.attends) :
                 \A n \in {ret.attends[j].pctx_, ret.attends[j].context,
                           ret.attends[j].mask_context} :
                    \E i \in 1 .. Len(ret.reads) :
                       /\ ret.reads[i].name = n
                       /\ ret.reads[i].item \in Range(ret.states)

\* the projected keys are read from the slot get_constants put them in
C25_ProjectedKeysRead ==
    (ret.op = "step" /\ att[1].class \in SelfClasses)
        => \E i \in 1 .. Len(ret.reads) :
              /\ ret.reads[i].name = "pctx_"
              /\ ret.reads[i].item = Item("pctx", 0)

C26_SlotsWithoutDropout ==
    (/\ ret.op = "step" /\ att[1].class = "AttLSTMCond3Inputs"
     /\ \A n \in {"dropout_T", "dropout_W", "dropout_S"} :
           ~InRange(att[1].rates[n]))
        => /\ ReadsMatch
           /\ Len(ret.constants) = IF att[1].attend_on_both THEN 19 ELSE 13

\* the recurrent state a name returned by step is the next value of
StateOf(name) ==
    CASE name \in {"h", "output"} -> "h"
      [] name = "c" -> "c"
      [] name \in {"ctx_", "ctx_1"} -> "x_att"
      [] name \in {"alphas", "alphas1"} -> "alphas"
      [] name = "ctx_2" -> "x_att2"
      [] name = "alphas2" -> "alphas2"
      [] name = "ctx_3" -> "x_att3"
      [] name = "alphas3" -> "alphas3"
      [] OTHER -> "none"

\* C24: for every cell and every attentional layer, step returns as many
\* states as recurrent states it was given, in the layout
\* [h, (c,) ctx_k, alphas_k ...] of get_initial_states, so the state list
\* keeps its length and layout over the timesteps.
C24_StepKeepsStateLayout ==
    ret.op = "step" =>
        LET returns == step_returns(att[1])
        IN  /\ Len(returns) = Len(ret.initial_states)
            /\ \A i \in 1 .. Len(returns) :
                  StateOf(returns[i]) = ret.initial_states[i].tag
            /\ ret.raised = "" => ret.returned = <<returns>>

C24_Witness ==
    /\ ret.op = "step" /\ ret.raised = ""
    /\ att[1].class = "AttLSTMCond"
    /\ ret.returned = <<(<<"h", "c", "ctx_", "alphas">>)>>
    /\ Len(ret.initial_states) = 4 /\ Len(ret.states) = 10

\* C27: on every stateful attentional layer the list of carried-over
\* states reset_states creates has as many entries as step returns states,
\* so that call can pair final state i with carried-over state i and feed
\* the list back as the initial states of the next call.
C27_ResetCreatesAllStates ==
    (ret.op = "reset_states" /\ att[1].stateful)
        => /\ Len(ret.listed) = Len(step_returns([class |-> att[1].class]))
           /\ ret.raised = ""
           /\ Len(ret.states[1]) = Len(ret.listed)

\* the list reset_states writes down is one entry short of what step
\* returns in the single-attention layers
C27_ResetListOneShort ==
    (/\ ret.op = "reset_states" /\ att[1].stateful
     /\ att[1].class \in SelfClasses \cup CondClasses)
        => Len(ret.listed) + 1 = Len(step_returns([class |-> att[1].class]))

====
